---- MODULE Spec2Model ----
(***************************************************************************)
(* Model of PexelsService (src/src/services/pexels-service.ts): the held   *)
(* credential, the private request() coroutine with its one suspension at  *)
(* fetch, the nine typed operations, and the handling of the response;     *)
(* and of the dispatch shell (src/src/main.ts): the handlers of the tools  *)
(* and resources, each suspended at its call of the client.                *)
(* Strings are TLA+ strings; JavaScript scalars are tagged records.        *)
(***************************************************************************)
EXTENDS Integers, Sequences, FiniteSets, TLC

VARIABLES ctor, apiKey, warned, inflight, last, handlers, reply

vars == <<ctor, apiKey, warned, inflight, last, handlers, reply>>


\* ---------------------------------------------------------------- bounds
\* Number of request() calls that may be suspended at fetch at once.
MaxInFlight == 1

\* ------------------------------------------------------ JavaScript values
Undefined == [t |-> "undefined"]
Null == [t |-> "null"]
NaN == [t |-> "NaN"]
Str(s) == [t |-> "string", v |-> s]
Num(n) == [t |-> "number", v |-> n]

\* value.toString() of a string or a number (a decimal is held in tenths)
ValueToString(value) ==
    CASE value.t = "number" -> ToString(value.v)
      [] value.t = "decimal" ->
           (IF value.v < 0 THEN "-" ELSE "")
           \o ToString((IF value.v < 0 THEN 0 - value.v ELSE value.v) \div 10)
           \o "." \o ToString((IF value.v < 0 THEN 0 - value.v ELSE value.v) % 10)
      [] OTHER -> value.v

\* String.prototype.startsWith
StartsWith(s, prefix) ==
    Len(s) >= Len(prefix) /\ SubSeq(s, 1, Len(prefix)) = prefix

\* ------------------------------------------------------------ construction
baseUrl == "https://api.pexels.com"

ConstructorEnvFirst(arg, env) ==
    IF env # <<>> /\ env[1] # "" THEN env[1]
    ELSE IF arg # <<>> /\ arg[1] # "" THEN arg[1]
    ELSE ""

\* this.apiKey = apiKey || process.env.PEXELS_API_KEY || ''
\* (arg and env are <<>> when absent, <<s>> when given)
Constructor(arg, env) ==
    IF arg # <<>> /\ arg[1] # "" THEN arg[1]
    ELSE IF env # <<>> /\ env[1] # "" THEN env[1]
    ELSE ""

ConfigurationMessage ==
    "Pexels API key is required. Please set an API key before making requests."

IsConfigurationError(outcome) ==
    outcome.kind = "thrown" /\ outcome.error.message = ConfigurationMessage

\* !this.apiKey
NoApiKeyOmitted(key) == FALSE
NoApiKeyLatched(key) ==
    key = "" \/ (last # <<>> /\ IsConfigurationError(last[1].outcome))
NoApiKey(key) == key = ""

\* --------------------------------------------------------- query and URL
\* application/x-www-form-urlencoded serialisation of one character
\* (URLSearchParams.prototype.toString), for the characters of the inputs
EncodeChar(c) ==
    CASE c = " " -> "+"
      [] c = "&" -> "%26"
      [] c = "=" -> "%3D"
      [] c = "#" -> "%23"
      [] c = "+" -> "%2B"
      [] c = "/" -> "%2F"
      [] c = "?" -> "%3F"
      [] OTHER -> c

RECURSIVE Encode(_)
Encode(s) == IF s = "" THEN "" ELSE EncodeChar(Head(s)) \o Encode(Tail(s))

\* Object.entries(params).forEach(... if (value !== undefined) append ...)
RECURSIVE QueryParamsUnfiltered(_)
QueryParamsUnfiltered(params) ==
    IF params = <<>> THEN <<>>
    ELSE <<
           <<Head(params)[1],
             IF Head(params)[2].t = "undefined" THEN "undefined"
             ELSE ValueToString(Head(params)[2])>>
         >> \o QueryParamsUnfiltered(Tail(params))

RECURSIVE QueryParams(_)
QueryParams(params) ==
    IF params = <<>> THEN <<>>
    ELSE (IF Head(params)[2].t # "undefined"
          THEN << <<Head(params)[1], ValueToString(Head(params)[2])>> >>
          ELSE <<>>)
         \o QueryParams(Tail(params))

\* queryParams.toString()
RECURSIVE QueryToString(_)
QueryToString(qp) ==
    IF qp = <<>> THEN ""
    ELSE Encode(Head(qp)[1]) \o "=" \o Encode(Head(qp)[2])
         \o (IF Len(qp) > 1 THEN "&" ELSE "")
         \o QueryToString(Tail(qp))

\* isVideoEndpoint ? '' : '/v1'
EndpointRootOld(endpoint) ==
    IF StartsWith(endpoint, "/videos") THEN "/videos" ELSE "/v1"
EndpointRoot(endpoint) ==
    IF StartsWith(endpoint, "/videos") THEN "" ELSE "/v1"

BuildUrl(endpoint, params) ==
    LET qs == QueryToString(QueryParams(params))
    IN  baseUrl \o EndpointRoot(endpoint) \o endpoint
        \o (IF qs # "" THEN "?" \o qs ELSE "")

\* headers: { Authorization: this.apiKey }
AuthorizationBearer(key) == "Bearer " \o key
Authorization(key) == key

\* ------------------------------------------------------- response (fetch)
\* The bodies the transport may deliver, and JSON.parse of each.
JsonError == "{\"error\":\"Bad request\"}"
JsonCode == "{\"code\":\"E42\"}"
JsonEmptyError == "{\"error\":\"\",\"code\":\"E7\"}"
JsonOther == "{\"status\":500}"
JsonPayload == "{\"id\":42}"
PlainText == "Service Unavailable"
EmptyBody == ""

\* payloads of the Pexels API, as the dispatch shell reads them: a photo
\* (with an original, without one, without any URL), a video (two files, one
\* file, none), one page of each listing, and the JSON text null
PhotoBody ==
    "{\"id\":42,\"url\":\"https://www.pexels.com/photo/42/\",\"photographer"
      \o "\":\"Ann\",\"photographer_url\":\"https://www.pexels.com/@ann\",\"src\""
      \o ":{\"original\":\"https://images.pexels.com/photos/42/a.png\",\"large\""
      \o ":\"https://images.pexels.com/photos/42/large\"},\"alt\":\"\"}"
PhotoLargeOnlyBody ==
    "{\"id\":42,\"url\":\"https://www.pexels.com/photo/42/\",\"photographer"
      \o "\":\"Ann\",\"photographer_url\":\"https://www.pexels.com/@ann\",\"src\""
      \o ":{\"large\":\"https://images.pexels.com/photos/42/large\"},\"alt\":\"A"
      \o " tree\"}"
PhotoNoSrcBody ==
    "{\"id\":42,\"url\":\"https://www.pexels.com/photo/42/\",\"photographer"
      \o "\":\"Ann\",\"photographer_url\":\"https://www.pexels.com/@ann\",\"src\""
      \o ":{},\"alt\":\"A tree\"}"
VideoBody ==
    "{\"id\":7,\"user\":{\"name\":\"Bob\",\"url\":\"https://www.pexels.com/"
      \o "@bob\"},\"video_files\":[{\"quality\":\"sd\",\"link\":\"https://videos"
      \o ".pexels.com/7/sd.mov\"},{\"quality\":\"hd\",\"link\":\"https://videos."
      \o "pexels.com/7/hd\"}]}"
VideoSdOnlyBody ==
    "{\"id\":7,\"user\":{\"name\":\"Bob\",\"url\":\"https://www.pexels.com/"
      \o "@bob\"},\"video_files\":[{\"quality\":\"sd\",\"link\":\"https://videos"
      \o ".pexels.com/7/sd.mov\"}]}"
VideoNoFilesBody ==
    "{\"id\":7,\"user\":{\"name\":\"Bob\",\"url\":\"https://www.pexels.com/"
      \o "@bob\"},\"video_files\":[]}"
PhotosPageBody ==
    "{\"total_results\":1,\"photos\":[{\"id\":42}]}"
VideosPageBody ==
    "{\"total_results\":2,\"videos\":[{\"id\":7},{\"id\":8}]}"
CollectionsPageBody ==
    "{\"collections\":[]}"
MediaPageBody ==
    "{\"id\":\"abc\",\"media\":[{\"id\":42}]}"
NullBody ==
    "null"

Object(fields) == [t |-> "object", fields |-> fields]
Array(items) == [t |-> "array", items |-> items]

JSONParse(text) ==
    CASE text = JsonError ->
           [ok |-> TRUE, value |-> Object([error |-> Str("Bad request")])]
      [] text = JsonCode ->
           [ok |-> TRUE, value |-> Object([code |-> Str("E42")])]
      [] text = JsonEmptyError ->
           [ok |-> TRUE, value |-> Object([error |-> Str(""), code |-> Str("E7")])]
      [] text = JsonOther ->
           [ok |-> TRUE, value |-> Object([status |-> Num(500)])]
      [] text = JsonPayload ->
           [ok |-> TRUE, value |-> Object([id |-> Num(42)])]
      [] text = PhotoBody ->
           [ok |-> TRUE,
            value |-> Object([id |-> Num(42),
                     url |-> Str("https://www.pexels.com/photo/42/"),
                     photographer |-> Str("Ann"),
                     photographer_url |-> Str("https://www.pexels.com/@ann"),
                     src |-> Object([original |-> Str("https://images.pexels.com/photos/42/a.png"),
                     large |-> Str("https://images.pexels.com/photos/42/large")]),
                     alt |-> Str("")])]
      [] text = PhotoLargeOnlyBody ->
           [ok |-> TRUE,
            value |-> Object([id |-> Num(42),
                     url |-> Str("https://www.pexels.com/photo/42/"),
                     photographer |-> Str("Ann"),
                     photographer_url |-> Str("https://www.pexels.com/@ann"),
                     src |-> Object([large |-> Str("https://images.pexels.com/photos/42/large")]),
                     alt |-> Str("A tree")])]
      [] text = PhotoNoSrcBody ->
           [ok |-> TRUE,
            value |-> Object([id |-> Num(42),
                     url |-> Str("https://www.pexels.com/photo/42/"),
                     photographer |-> Str("Ann"),
                     photographer_url |-> Str("https://www.pexels.com/@ann"),
                     src |-> Object(<<>>), alt |-> Str("A tree")])]
      [] text = VideoBody ->
           [ok |-> TRUE,
            value |-> Object([id |-> Num(7),
                     user |-> Object([name |-> Str("Bob"),
                     url |-> Str("https://www.pexels.com/@bob")]),
                     video_files |-> Array(<<Object([quality |-> Str("sd"),
                     link |-> Str("https://videos.pexels.com/7/sd.mov")]),
                     Object([quality |-> Str("hd"),
                     link |-> Str("https://videos.pexels.com/7/hd")])>>)])]
      [] text = VideoSdOnlyBody ->
           [ok |-> TRUE,
            value |-> Object([id |-> Num(7),
                     user |-> Object([name |-> Str("Bob"),
                     url |-> Str("https://www.pexels.com/@bob")]),
                     video_files |-> Array(<<Object([quality |-> Str("sd"),
                     link |-> Str("https://videos.pexels.com/7/sd.mov")])>>)])]
      [] text = VideoNoFilesBody ->
           [ok |-> TRUE,
            value |-> Object([id |-> Num(7),
                     user |-> Object([name |-> Str("Bob"),
                     url |-> Str("https://www.pexels.com/@bob")]),
                     video_files |-> Array(<<>>)])]
      [] text = PhotosPageBody ->
           [ok |-> TRUE,
            value |-> Object([total_results |-> Num(1),
                     photos |-> Array(<<Object([id |-> Num(42)])>>)])]
      [] text = VideosPageBody ->
           [ok |-> TRUE,
            value |-> Object([total_results |-> Num(2),
                     videos |-> Array(<<Object([id |-> Num(7)]),
                     Object([id |-> Num(8)])>>)])]
      [] text = CollectionsPageBody ->
           [ok |-> TRUE,
            value |-> Object([collections |-> Array(<<>>)])]
      [] text = MediaPageBody ->
           [ok |-> TRUE,
            value |-> Object([id |-> Str("abc"),
                     media |-> Array(<<Object([id |-> Num(42)])>>)])]
      [] text = NullBody ->
           [ok |-> TRUE,
            value |-> Null]
      [] OTHER -> [ok |-> FALSE, value |-> Undefined]

\* errorJson.error, errorJson.code
Field(object, name) ==
    IF name \in DOMAIN object.fields THEN object.fields[name] ELSE Undefined

\* JavaScript truthiness of a value
Truthy(value) ==
    CASE value.t = "string" -> value.v # ""
      [] value.t = "number" -> value.v # 0
      [] value.t \in {"undefined", "null", "NaN"} -> FALSE
      [] OTHER -> TRUE

NoError == [name |-> "", message |-> ""]
SyntaxError == [name |-> "SyntaxError", message |-> "invalid json response body"]
BodyUsedError == [name |-> "TypeError", message |-> "body used already"]
TransportError == [name |-> "FetchError", message |-> "request to https://api.pexels.com failed"]

\* response.ok
ResponseOk(response) == response.status >= 200 /\ response.status <= 299

\* response.json(): consumes the body, then parses it; a body already
\* consumed cannot be read again
ResponseJson(response, bodyUsed) ==
    IF bodyUsed
    THEN [threw |-> TRUE, error |-> BodyUsedError, value |-> Undefined, bodyUsed |-> TRUE]
    ELSE LET p == JSONParse(response.body)
         IN  [threw |-> ~p.ok, error |-> IF p.ok THEN NoError ELSE SyntaxError,
              value |-> p.value, bodyUsed |-> TRUE]

\* response.text(): consumes the body; a body already consumed cannot be
\* read again
ResponseText(response, bodyUsed) ==
    IF bodyUsed
    THEN [threw |-> TRUE, error |-> BodyUsedError, value |-> Undefined, bodyUsed |-> TRUE]
    ELSE [threw |-> FALSE, error |-> NoError, value |-> Str(response.body), bodyUsed |-> TRUE]

\* response.headers.get(name): <<>> models null
HeadersGet(response, name) == response.headers[name]

\* -------------------------------------------------------------- parseInt
Digits == {"0", "1", "2", "3", "4", "5", "6", "7", "8", "9"}

DigitValue(c) ==
    CASE c = "0" -> 0 [] c = "1" -> 1 [] c = "2" -> 2 [] c = "3" -> 3
      [] c = "4" -> 4 [] c = "5" -> 5 [] c = "6" -> 6 [] c = "7" -> 7
      [] c = "8" -> 8 [] c = "9" -> 9

RECURSIVE TrimStart(_)
TrimStart(s) ==
    IF s # "" /\ Head(s) = " " THEN TrimStart(Tail(s)) ELSE s

RECURSIVE DigitsPrefix(_)
DigitsPrefix(s) ==
    IF s # "" /\ Head(s) \in Digits THEN Head(s) \o DigitsPrefix(Tail(s)) ELSE ""

RECURSIVE DigitsToNumber(_, _)
DigitsToNumber(s, acc) ==
    IF s = "" THEN acc ELSE DigitsToNumber(Tail(s), 10 * acc + DigitValue(Head(s)))

\* parseInt(s, 10)
ParseInt(s) ==
    LET t == TrimStart(s)
        signed == t # "" /\ Head(t) \in {"+", "-"}
        u == IF signed THEN Tail(t) ELSE t
        d == DigitsPrefix(u)
        n == DigitsToNumber(d, 0)
    IN  IF d = "" THEN NaN
        ELSE Num(IF signed /\ Head(t) = "-" THEN 0 - n ELSE n)

\* header ? parseInt(header, 10) : null
RateLimitField(header) ==
    IF header # <<>> /\ header[1] # "" THEN ParseInt(header[1]) ELSE Null

\* Object.values(rateLimit).some(v => v !== null) ? rateLimit : undefined
ValidRateLimitTruthy(rateLimit) ==
    IF \E f \in {"limit", "remaining", "reset"} : Truthy(rateLimit[f])
    THEN rateLimit ELSE Undefined
ValidRateLimit(rateLimit) ==
    IF \E f \in {"limit", "remaining", "reset"} : rateLimit[f] # Null
    THEN rateLimit ELSE Undefined

ExtractRateLimit(response) ==
    ValidRateLimit(
        [t |-> "object",
         limit |-> RateLimitField(HeadersGet(response, "X-Ratelimit-Limit")),
         remaining |-> RateLimitField(HeadersGet(response, "X-Ratelimit-Remaining")),
         reset |-> RateLimitField(HeadersGet(response, "X-Ratelimit-Reset"))])

\* ------------------------------------------------------- outcome of a call
Returned(data, rateLimit) ==
    [kind |-> "returned", error |-> NoError, data |-> data, rateLimit |-> rateLimit]
Thrown(error) ==
    [kind |-> "thrown", error |-> error, data |-> Undefined, rateLimit |-> Undefined]

\* the try/catch of the !response.ok branch: the value of errorBody, or the
\* error that leaves the catch block
ErrorBody(response) ==
    LET j == ResponseJson(response, FALSE)
        e == Field(j.value, "error")
        c == Field(j.value, "code")
        tried == IF j.threw THEN j
                 ELSE IF Truthy(e) THEN [j EXCEPT !.value = e]
                 ELSE IF Truthy(c) THEN [j EXCEPT !.value = c]
                 ELSE ResponseText(response, j.bodyUsed)
    IN  IF tried.threw THEN ResponseText(response, tried.bodyUsed) ELSE tried

StatusPrefix(status) == "Pexels API Error (" \o ToString(status) \o "): "

\* errorMessage, after the switch on response.status
ErrorMessage(status, errorBody) ==
    CASE status = 401 -> StatusPrefix(status) \o "Unauthorized. Check your API key."
      [] status = 404 -> StatusPrefix(status) \o "Resource not found."
      [] status = 429 ->
           StatusPrefix(status) \o "Rate limit exceeded. Please wait and try again."
      [] OTHER -> StatusPrefix(status) \o errorBody

HandleResponseNoStatusCheck(response) ==
    LET data == ResponseJson(response, FALSE)
    IN  IF data.threw THEN Thrown(data.error)
        ELSE Returned(data.value, ExtractRateLimit(response))

HandleResponseWrapParse(response) ==
    IF ~ResponseOk(response)
    THEN LET body == ErrorBody(response)
         IN  IF body.threw THEN Thrown(body.error)
             ELSE Thrown([name |-> "Error",
                          message |-> ErrorMessage(response.status,
                                                   ValueToString(body.value))])
    ELSE LET data == ResponseJson(response, FALSE)
         IN  IF data.threw
             THEN Thrown([name |-> "Error",
                          message |-> ErrorMessage(response.status,
                                                   data.error.message)])
             ELSE Returned(data.value, ExtractRateLimit(response))

\* request(), from the resolution of fetch to its return or throw
HandleResponse(response) ==
    IF ~ResponseOk(response)
    THEN LET body == ErrorBody(response)
         IN  IF body.threw THEN Thrown(body.error)
             ELSE Thrown([name |-> "Error",
                          message |-> ErrorMessage(response.status,
                                                   ValueToString(body.value))])
    ELSE LET data == ResponseJson(response, FALSE)
         IN  IF data.threw THEN Thrown(data.error)
             ELSE Returned(data.value, ExtractRateLimit(response))

\* ------------------------------------------- JavaScript in the handlers
\* a number that is not an integer, in tenths (Dec(5) is 0.5)
Dec(tenths) == [t |-> "decimal", v |-> tenths]

\* the TypeError of a property read on undefined or null
TypeErrorReading(value, name) ==
    [name |-> "TypeError",
     message |-> "Cannot read properties of " \o value.t
                   \o " (reading '" \o name \o "')"]

\* value[name]
GetProp(value, name) ==
    CASE value.t \in {"undefined", "null"} ->
           [threw |-> TRUE, error |-> TypeErrorReading(value, name),
            value |-> Undefined]
      [] value.t = "object" ->
           [threw |-> FALSE, error |-> NoError, value |-> Field(value, name)]
      [] value.t = "array" /\ name = "length" ->
           [threw |-> FALSE, error |-> NoError, value |-> Num(Len(value.items))]
      [] OTHER -> [threw |-> FALSE, error |-> NoError, value |-> Undefined]

\* `${value}` in a template literal
RECURSIVE TemplateString(_)
TemplateString(value) ==
    CASE value.t \in {"undefined", "null", "NaN"} -> value.t
      [] value.t = "object" -> "[object Object]"
      [] value.t = "array" ->
           IF value.items = <<>> THEN ""
           ELSE (IF Head(value.items).t \in {"undefined", "null"} THEN ""
                 ELSE TemplateString(Head(value.items)))
                \o (IF Len(value.items) > 1
                    THEN "," \o TemplateString(Array(Tail(value.items)))
                    ELSE "")
      [] OTHER -> ValueToString(value)

\* value ?? 'N/A', in a template literal
OrNA(value) ==
    IF value.t \in {"undefined", "null"} THEN "N/A" ELSE TemplateString(value)

\* String.prototype.padStart(width, '0') of a natural number
RECURSIVE Pad(_, _)
Pad(n, width) ==
    IF Len(ToString(n)) >= width THEN ToString(n)
    ELSE "0" \o Pad(n, width - 1)

\* new Date(seconds * 1000).toISOString(), years 0000 to 9999: the date of
\* the proleptic Gregorian calendar, days counted from 1970-01-01
ToISOString(seconds) ==
    LET days == seconds \div 86400
        rest == seconds % 86400
        z == days + 719468
        era == z \div 146097
        doe == z - era * 146097
        yoe == (doe - doe \div 1460 + doe \div 36524 - doe \div 146096) \div 365
        doy == doe - (365 * yoe + yoe \div 4 - yoe \div 100)
        mp == (5 * doy + 2) \div 153
        d == doy - (153 * mp + 2) \div 5 + 1
        m == IF mp < 10 THEN mp + 3 ELSE mp - 9
        y == yoe + era * 400 + (IF m <= 2 THEN 1 ELSE 0)
    IN  Pad(y, 4) \o "-" \o Pad(m, 2) \o "-" \o Pad(d, 2) \o "T"
        \o Pad(rest \div 3600, 2) \o ":" \o Pad((rest % 3600) \div 60, 2)
        \o ":" \o Pad(rest % 60, 2) \o ".000Z"

\* the position of the last occurrence of character c in s, 0 when none
RECURSIVE LastIndexOf(_, _)
LastIndexOf(s, c) ==
    IF s = "" THEN 0
    ELSE IF SubSeq(s, Len(s), Len(s)) = c THEN Len(s)
    ELSE LastIndexOf(SubSeq(s, 1, Len(s) - 1), c)

\* the position of the first occurrence of a character of set cs in s from
\* position i on, Len(s) + 1 when none
RECURSIVE IndexOfAny(_, _, _)
IndexOfAny(s, cs, i) ==
    IF i > Len(s) THEN Len(s) + 1
    ELSE IF SubSeq(s, i, i) \in cs THEN i
    ELSE IndexOfAny(s, cs, i + 1)

\* new URL(text): an absolute https URL, or the TypeError of the parser
ValidUrl(value) == value.t = "string" /\ StartsWith(value.v, "https://")


\* new URL(text).pathname of a valid URL
Pathname(text) ==
    LET afterScheme == SubSeq(text, Len("https://") + 1, Len(text))
        slash == IndexOfAny(afterScheme, {"/", "?", "#"}, 1)
        fromPath == SubSeq(afterScheme, slash, Len(afterScheme))
        end == IndexOfAny(fromPath, {"?", "#"}, 1)
        path == SubSeq(fromPath, 1, end - 1)
    IN  IF path = "" THEN "/" ELSE path

\* path.extname(p): from the last dot of the last segment, "" when the
\* segment has no dot or only a leading one
Extname(p) ==
    LET base == SubSeq(p, LastIndexOf(p, "/") + 1, Len(p))
        dot == LastIndexOf(base, ".")
    IN  IF dot <= 1 THEN "" ELSE SubSeq(base, dot, Len(base))

\* JSON.stringify(value, null, 2) of the values JSON.parse gives for the
\* bodies above
JSONStringify(value) ==
    CASE value = JSONParse(JsonError).value ->
           "{\n  \"error\": \"Bad request\"\n}"
      [] value = JSONParse(JsonCode).value ->
           "{\n  \"code\": \"E42\"\n}"
      [] value = JSONParse(JsonEmptyError).value ->
           "{\n  \"error\": \"\",\n  \"code\": \"E7\"\n}"
      [] value = JSONParse(JsonOther).value ->
           "{\n  \"status\": 500\n}"
      [] value = JSONParse(JsonPayload).value ->
           "{\n  \"id\": 42\n}"
      [] value = JSONParse(PhotoBody).value ->
           "{\n  \"id\": 42,\n  \"url\": \"https://www.pexels.com/photo/42/\",\n  "
             \o "\"photographer\": \"Ann\",\n  \"photographer_url\": \"https://www.pexe"
             \o "ls.com/@ann\",\n  \"src\": {\n    \"original\": \"https://images.pexel"
             \o "s.com/photos/42/a.png\",\n    \"large\": \"https://images.pexels.com/p"
             \o "hotos/42/large\"\n  },\n  \"alt\": \"\"\n}"
      [] value = JSONParse(PhotoLargeOnlyBody).value ->
           "{\n  \"id\": 42,\n  \"url\": \"https://www.pexels.com/photo/42/\",\n  "
             \o "\"photographer\": \"Ann\",\n  \"photographer_url\": \"https://www.pexe"
             \o "ls.com/@ann\",\n  \"src\": {\n    \"large\": \"https://images.pexels.c"
             \o "om/photos/42/large\"\n  },\n  \"alt\": \"A tree\"\n}"
      [] value = JSONParse(PhotoNoSrcBody).value ->
           "{\n  \"id\": 42,\n  \"url\": \"https://www.pexels.com/photo/42/\",\n  "
             \o "\"photographer\": \"Ann\",\n  \"photographer_url\": \"https://www.pexe"
             \o "ls.com/@ann\",\n  \"src\": {},\n  \"alt\": \"A tree\"\n}"
      [] value = JSONParse(VideoBody).value ->
           "{\n  \"id\": 7,\n  \"user\": {\n    \"name\": \"Bob\",\n    \"url\": \""
             \o "https://www.pexels.com/@bob\"\n  },\n  \"video_files\": [\n    {\n    "
             \o "  \"quality\": \"sd\",\n      \"link\": \"https://videos.pexels.com/7/"
             \o "sd.mov\"\n    },\n    {\n      \"quality\": \"hd\",\n      \"link\": \""
             \o "https://videos.pexels.com/7/hd\"\n    }\n  ]\n}"
      [] value = JSONParse(VideoSdOnlyBody).value ->
           "{\n  \"id\": 7,\n  \"user\": {\n    \"name\": \"Bob\",\n    \"url\": \""
             \o "https://www.pexels.com/@bob\"\n  },\n  \"video_files\": [\n    {\n    "
             \o "  \"quality\": \"sd\",\n      \"link\": \"https://videos.pexels.com/7/"
             \o "sd.mov\"\n    }\n  ]\n}"
      [] value = JSONParse(VideoNoFilesBody).value ->
           "{\n  \"id\": 7,\n  \"user\": {\n    \"name\": \"Bob\",\n    \"url\": \""
             \o "https://www.pexels.com/@bob\"\n  },\n  \"video_files\": []\n}"
      [] value = JSONParse(PhotosPageBody).value ->
           "{\n  \"total_results\": 1,\n  \"photos\": [\n    {\n      \"id\": 42\n"
             \o "    }\n  ]\n}"
      [] value = JSONParse(VideosPageBody).value ->
           "{\n  \"total_results\": 2,\n  \"videos\": [\n    {\n      \"id\": 7\n "
             \o "   },\n    {\n      \"id\": 8\n    }\n  ]\n}"
      [] value = JSONParse(CollectionsPageBody).value ->
           "{\n  \"collections\": []\n}"
      [] value = JSONParse(MediaPageBody).value ->
           "{\n  \"id\": \"abc\",\n  \"media\": [\n    {\n      \"id\": 42\n    }\n"
             \o "  ]\n}"
      [] value = JSONParse(NullBody).value ->
           "null"

\* s with every line but the first indented by two more spaces
RECURSIVE Indent(_)
Indent(s) ==
    IF Len(s) <= 1 THEN (IF s = "\n" THEN "\n  " ELSE s)
    ELSE Indent(SubSeq(s, 1, Len(s) \div 2))
         \o Indent(SubSeq(s, Len(s) \div 2 + 1, Len(s)))

\* JSON.stringify of a number, null, or NaN (which JSON writes as null)
JSONNumber(value) ==
    IF value.t \in {"null", "NaN"} THEN "null" ELSE ValueToString(value)

\* JSON.stringify(response, null, 2) of the { data, rateLimit } a call
\* returned; a property that is undefined is left out
JSONStringifyResponse(outcome) ==
    "{\n  \"data\": " \o Indent(JSONStringify(outcome.data))
    \o (IF outcome.rateLimit.t = "undefined" THEN ""
        ELSE ",\n  \"rateLimit\": {\n    \"limit\": "
             \o JSONNumber(outcome.rateLimit.limit)
             \o ",\n    \"remaining\": " \o JSONNumber(outcome.rateLimit.remaining)
             \o ",\n    \"reset\": " \o JSONNumber(outcome.rateLimit.reset)
             \o "\n  }")
    \o "\n}"

\* --------------------------------------------- what a handler answers
\* the handler returns these texts / the handler's try block throws
Answer(content) ==
    [threw |-> FALSE, error |-> NoError, content |-> content, warnings |-> <<>>]
Raise(error) ==
    [threw |-> TRUE, error |-> error, content |-> <<>>, warnings |-> <<>>]
Text(text) == [threw |-> FALSE, error |-> NoError, value |-> text]

\* if (rateLimit) content.push(...)
RateLimitContent(rateLimit) ==
    IF ~Truthy(rateLimit) THEN <<>>
    ELSE << "\nRate Limit: " \o OrNA(rateLimit.remaining) \o "/"
            \o OrNA(rateLimit.limit)
            \o " requests remaining this period. Resets at "
            \o (IF Truthy(rateLimit.reset)
                THEN ToISOString(rateLimit.reset.v) ELSE "N/A")
            \o "." >>

\* `... ${data[list].length} ...`
LengthOf(data, list) ==
    LET items == GetProp(data, list)
    IN  IF items.threw THEN items ELSE GetProp(items.value, "length")

\* the first text of a listing tool
Headline(tool, args, data) ==
    LET total == GetProp(data, "total_results")
        count == LengthOf(data, CASE tool = "getCuratedPhotos" -> "photos"
                                  [] tool = "getPopularVideos" -> "videos"
                                  [] tool = "getFeaturedCollections" -> "collections"
                                  [] OTHER -> "media")
    IN  CASE tool = "searchPhotos" ->
               IF total.threw THEN total
               ELSE Text("Found " \o TemplateString(total.value)
                         \o " photos matching \"" \o args.query.v \o "\"")
          [] tool = "searchVideos" ->
               IF total.threw THEN total
               ELSE Text("Found " \o TemplateString(total.value)
                         \o " videos matching \"" \o args.query.v \o "\"")
          [] tool = "getCuratedPhotos" ->
               IF count.threw THEN count
               ELSE Text("Retrieved " \o TemplateString(count.value)
                         \o " curated photos")
          [] tool = "getPopularVideos" ->
               IF count.threw THEN count
               ELSE Text("Retrieved " \o TemplateString(count.value)
                         \o " popular videos")
          [] tool = "getFeaturedCollections" ->
               IF count.threw THEN count
               ELSE Text("Retrieved " \o TemplateString(count.value)
                         \o " featured collections")
          [] tool = "getCollectionMedia" ->
               IF count.threw THEN count
               ELSE Text("Retrieved " \o TemplateString(count.value)
                         \o " media items from collection " \o args.id.v)

\* the try block of a listing tool after its call returned
RenderListing(tool, args, outcome) ==
    LET headline == Headline(tool, args, outcome.data)
    IN  IF headline.threw THEN Raise(headline.error)
        ELSE Answer(<<headline.value, JSONStringify(outcome.data)>>
                    \o RateLimitContent(outcome.rateLimit))

\* the try block of getPhoto after its call returned
RenderGetPhoto(args, outcome) ==
    LET photo == outcome.data
        alt == GetProp(photo, "alt").value
        shown == IF Truthy(alt) THEN alt ELSE GetProp(photo, "url").value
    IN  IF ~Truthy(photo)
        THEN Answer(<<"Photo with ID " \o TemplateString(args.id) \o " not found.">>)
        ELSE Answer(<<"Retrieved photo: " \o TemplateString(shown),
                      JSONStringify(photo)>>
                    \o RateLimitContent(outcome.rateLimit))

\* the try block of getVideo after its call returned
RenderGetVideo(args, outcome) ==
    IF ~Truthy(outcome.data)
    THEN Answer(<<"Video with ID " \o TemplateString(args.id) \o " not found.">>)
    ELSE Answer(<<"Retrieved video with ID: " \o TemplateString(args.id),
                  JSONStringify(outcome.data)>>
                \o RateLimitContent(outcome.rateLimit))

Recommendation(what) ==
    "Recommendation: Use an available local tool (like curl or PowerShell's "
    \o "Invoke-WebRequest) to download the " \o what
    \o " using the link provided."


\* let actualSize = size; if (!imageUrl) { ... actualSize = 'original'; }
ActualSizeRequested(fallback, size) == size
ActualSize(fallback, size) == IF fallback THEN "original" ELSE size

\* the try block of downloadPhoto after its call returned
RenderDownloadPhoto(args, outcome) ==
    LET photo == outcome.data
        availableSizes == GetProp(photo, "src").value
        requested == GetProp(availableSizes, args.size.v)
        fallback == ~Truthy(requested.value)
        imageUrl == IF fallback THEN GetProp(availableSizes, "original").value
                    ELSE requested.value
        actualSize == ActualSize(fallback, args.size.v)
        warnings == IF fallback
                    THEN <<"Requested size '" \o args.size.v
                           \o "' not found for photo " \o TemplateString(args.id)
                           \o ", falling back to 'original'.">>
                    ELSE <<>>
        extname == Extname(Pathname(imageUrl.v))
        ext == IF extname # "" THEN extname ELSE ".jpg"
        fileName == "pexels_" \o TemplateString(GetProp(photo, "id").value)
                    \o "_" \o actualSize \o ext
    IN  IF ~Truthy(photo)
        THEN Answer(<<"Photo with ID " \o TemplateString(args.id) \o " not found.">>)
        ELSE IF requested.threw THEN Raise(requested.error)
        ELSE IF ~Truthy(imageUrl)
        THEN [Answer(<<"Could not find any download URL for photo ID "
                       \o TemplateString(args.id) \o ".">>)
                EXCEPT !.warnings = warnings]
        ELSE IF ~ValidUrl(imageUrl)
        THEN [Raise([name |-> "TypeError", message |-> "Invalid URL"]) EXCEPT !.warnings = warnings]
        ELSE [Answer(<<"Download Link (" \o actualSize \o "): " \o imageUrl.v,
                       "Suggested Filename: " \o fileName
                       \o "\nAttribution: Photo by "
                       \o TemplateString(GetProp(photo, "photographer").value)
                       \o " ("
                       \o TemplateString(GetProp(photo, "photographer_url").value)
                       \o ") on Pexels. License: https://www.pexels.com/license/\n\n"
                       \o Recommendation("photo")>>
                     \o RateLimitContent(outcome.rateLimit))
                EXCEPT !.warnings = warnings]

\* video_files.find(vf => vf.quality === quality)
RECURSIVE Find(_, _)
FindNothing(items, quality) ==
    [threw |-> FALSE, error |-> NoError, value |-> Undefined]
Find(items, quality) ==
    IF items = <<>> THEN [threw |-> FALSE, error |-> NoError, value |-> Undefined]
    ELSE LET q == GetProp(Head(items), "quality")
         IN  IF q.threw THEN q
             ELSE IF q.value = quality
             THEN [threw |-> FALSE, error |-> NoError, value |-> Head(items)]
             ELSE Find(Tail(items), quality)

\* the try block of downloadVideo after its call returned
RenderDownloadVideo(args, outcome) ==
    LET videoData == outcome.data
        files == GetProp(videoData, "video_files").value
        found == Find(files.items, args.quality)
        videoFile == IF Truthy(found.value) THEN found.value
                     ELSE IF files.items = <<>> THEN Undefined
                     ELSE files.items[1]
        videoUrl == GetProp(videoFile, "link").value
        extname == Extname(Pathname(videoUrl.v))
        ext == IF extname # "" THEN extname ELSE ".mp4"
        quality == TemplateString(GetProp(videoFile, "quality").value)
        fileName == "pexels_video_"
                    \o TemplateString(GetProp(videoData, "id").value)
                    \o "_" \o quality \o ext
        user == GetProp(videoData, "user").value
        name == GetProp(user, "name")
    IN  IF ~Truthy(videoData)
        THEN Answer(<<"Video with ID " \o TemplateString(args.id) \o " not found.">>)
        ELSE IF files.t \in {"undefined", "null"}
        THEN Raise(TypeErrorReading(files, "find"))
        ELSE IF files.t # "array" THEN Raise([name |-> "TypeError",
                    message |-> "videoData.video_files.find is not a function"])
        ELSE IF found.threw THEN Raise(found.error)
        ELSE IF ~Truthy(videoFile)
        THEN Answer(<<"No video file found for ID "
                      \o TemplateString(args.id) \o ".">>)
        ELSE IF ~ValidUrl(videoUrl) THEN Raise([name |-> "TypeError", message |-> "Invalid URL"])
        ELSE IF name.threw THEN Raise(name.error)
        ELSE Answer(<<"Download Link (" \o quality \o "): " \o videoUrl.v,
                      "Suggested Filename: " \o fileName
                      \o "\nAttribution: Video by " \o TemplateString(name.value)
                      \o " (" \o TemplateString(GetProp(user, "url").value)
                      \o ") on Pexels. License: https://www.pexels.com/license/\n\n"
                      \o Recommendation("video")>>
                    \o RateLimitContent(outcome.rateLimit))

\* the try block of a tool after its call of the client returned
RenderTool(tool, args, outcome) ==
    CASE tool = "getPhoto" -> RenderGetPhoto(args, outcome)
      [] tool = "getVideo" -> RenderGetVideo(args, outcome)
      [] tool = "downloadPhoto" -> RenderDownloadPhoto(args, outcome)
      [] tool = "downloadVideo" -> RenderDownloadVideo(args, outcome)
      [] OTHER -> RenderListing(tool, args, outcome)

\* the text each handler puts before the message of the error it caught
ErrorPrefix(handler, args) ==
    CASE handler = "searchPhotos" -> "Error searching photos: "
      [] handler = "downloadPhoto" -> "Error preparing photo data: "
      [] handler = "downloadVideo" -> "Error preparing video data: "
      [] handler = "getCuratedPhotos" -> "Error getting curated photos: "
      [] handler = "getPhoto" -> "Error getting photo: "
      [] handler = "searchVideos" -> "Error searching videos: "
      [] handler = "getPopularVideos" -> "Error getting popular videos: "
      [] handler = "getVideo" -> "Error getting video: "
      [] handler = "getFeaturedCollections" -> "Error getting featured collections: "
      [] handler = "getCollectionMedia" -> "Error getting collection media: "
      [] handler = "photo" ->
           "Error retrieving photo with ID " \o TemplateString(args.id) \o ": "
      [] handler = "video" ->
           "Error retrieving video with ID " \o TemplateString(args.id) \o ": "
      [] handler = "collection" ->
           "Error retrieving collection with ID " \o TemplateString(args.id) \o ": "

\* catch (error) { return { content: [{ type: "text", text: ... }] } }
Catch(handler, args, error) == <<ErrorPrefix(handler, args) \o error.message>>

\* ------------------------------------------------------------ input sets
Keys == {"", "k1", "k2"}
CtorArgs == {<<>>, <<"">>, <<"k1">>}
EnvValues == {<<>>, <<"">>, <<"k2">>}

PhotoIds == {42}
VideoIds == {42, 7}
CollectionIds == {"videos"}
Queries == {"red car"}

\* options records of the typed operations, as ordered key/value entries
PagingOptions ==
    { << <<"page", Undefined>>, <<"per_page", Undefined>> >>,
      << <<"page", Num(0)>>, <<"per_page", Num(80)>> >> }
PhotoSearchOptions ==
    { << <<"orientation", Str("landscape")>>, <<"size", Undefined>>,
         <<"color", Undefined>>, <<"locale", Undefined>>,
         <<"page", Undefined>>, <<"per_page", Num(80)>> >>,
      << <<"color", Str("")>>, <<"page", Num(0)>> >> }
VideoSearchOptions ==
    { << <<"orientation", Undefined>>, <<"size", Str("small")>>,
         <<"locale", Str("en-US")>>, <<"page", Num(1)>>,
         <<"per_page", Undefined>> >> }
PopularVideoOptions ==
    { << <<"min_width", Num(0)>>, <<"min_height", Undefined>>,
         <<"min_duration", Undefined>>, <<"max_duration", Num(30)>>,
         <<"page", Undefined>>, <<"per_page", Undefined>> >> }
CollectionMediaOptions ==
    { << <<"type", Str("videos")>>, <<"sort", Undefined>>,
         <<"page", Undefined>>, <<"per_page", Num(15)>> >> }

NoHeaders ==
    [h \in {"X-Ratelimit-Limit", "X-Ratelimit-Remaining", "X-Ratelimit-Reset"}
       |-> <<>>]
Headers(limit, remaining, reset) ==
    [h \in {"X-Ratelimit-Limit", "X-Ratelimit-Remaining", "X-Ratelimit-Reset"}
       |-> CASE h = "X-Ratelimit-Limit" -> limit
             [] h = "X-Ratelimit-Remaining" -> remaining
             [] OTHER -> reset]

HeaderSets ==
    { NoHeaders,
      Headers(<<"20000">>, <<"19999">>, <<"1700000000">>),
      Headers(<<"100">>, <<>>, <<>>),
      Headers(<<>>, <<"0">>, <<>>),
      Headers(<<>>, <<>>, <<"1700000000">>),
      Headers(<<"">>, <<>>, <<>>),
      Headers(<<"abc">>, <<>>, <<>>),
      Headers(<<"100">>, <<"12abc">>, <<"soon">>) }

Response(status, body, headers) ==
    [status |-> status, body |-> body, headers |-> headers]

\* responses of the calls specification: one of each kind of outcome
BasicResponses ==
    { Response(200, JsonPayload, Headers(<<"20000">>, <<"19999">>, <<"1700000000">>)),
      Response(200, PlainText, NoHeaders),
      Response(401, JsonError, NoHeaders),
      Response(500, PlainText, NoHeaders) }

ErrorBodies == {JsonError, JsonCode, JsonEmptyError, JsonOther, PlainText, EmptyBody}

\* responses of the responses specification: every status with every body,
\* every success with every set of headers
AllResponses ==
    { Response(st, b, NoHeaders) : st \in {400, 401, 404, 429, 500}, b \in ErrorBodies }
    \cup { Response(204, EmptyBody, NoHeaders),
           Response(200, PlainText, Headers(<<"100">>, <<>>, <<>>)),
           Response(429, JsonError, Headers(<<"20000">>, <<"0">>, <<"1700000000">>)) }
    \cup { Response(200, JsonPayload, h) : h \in HeaderSets }

\* ------------------------------------------------------------------ state
\* ctor       the argument of the constructor and PEXELS_API_KEY in the
\*            environment it read (<<>> when absent)
\* apiKey     this.apiKey
\* warned     whether the constructor wrote its warning
\* inflight   the request() calls suspended at `await fetch(...)`
\* last       <<>> or <<c>>, c the call that completed most recently
\* handlers   the handlers of main.ts suspended at their call of the client
\* reply      <<>> or <<r>>, r the answer to the most recent invocation of a
\*            tool or resource that was answered
NoResponse == <<>>

Call(op, endpoint, params) ==
    [op |-> op, endpoint |-> endpoint, params |-> params,
     keyAtStart |-> apiKey, gets |-> <<>>]

Get(url, key) == [url |-> url, headers |-> [Authorization |-> Authorization(key)]]

\* the call repeats the request of the call that completed just before it,
\* which failed for want of a credential
AfterConfigurationError(call) ==
    /\ last # <<>>
    /\ IsConfigurationError(last[1].outcome)
    /\ last[1].call.op = call.op
    /\ last[1].call.endpoint = call.endpoint
    /\ last[1].call.params = call.params

Completed(call, response, outcome) ==
    [call |-> call, response |-> response, outcome |-> outcome,
     retry |-> AfterConfigurationError(call)]

\* new PexelsService(apiKey?) with process.env.PEXELS_API_KEY = env
Construct(arg, env) ==
    /\ ctor = [arg |-> arg, env |-> env]
    /\ apiKey = Constructor(arg, env)
    /\ warned = NoApiKey(Constructor(arg, env))
    /\ inflight = {}
    /\ last = <<>>
    /\ handlers = {}
    /\ reply = <<>>

\* any construction
Init == \E arg \in CtorArgs, env \in EnvValues : Construct(arg, env)

\* main.ts: new PexelsService(), no key in the environment
InitServer == Construct(<<>>, <<>>)

\* ---------------------------------------------------------------- actions
SetApiKeyIfNonEmpty(key) ==
    /\ apiKey' = IF key = "" THEN apiKey ELSE key
    /\ UNCHANGED <<ctor, warned, inflight, last>>
SetApiKey(key) ==
    /\ apiKey' = key
    /\ UNCHANGED <<ctor, warned, inflight, last>>

\* a client that stops working once a request of its failed
RequestAfterFailure(op, endpoint, params) ==
    LET call == Call(op, endpoint, params)
        failed == /\ last # <<>>
                  /\ last[1].outcome.kind = "thrown"
                  /\ last[1].response # NoResponse
    IN  IF NoApiKey(apiKey) \/ failed
        THEN /\ last' = <<Completed(call, NoResponse,
                                    Thrown([name |-> "Error",
                                            message |-> ConfigurationMessage]))>>
             /\ UNCHANGED <<ctor, apiKey, warned, inflight>>
        ELSE LET issued == [call EXCEPT
                              !.gets = <<Get(BuildUrl(endpoint, params), apiKey)>>]
             IN  /\ Cardinality(inflight) < MaxInFlight
                 /\ issued \notin inflight
                 /\ inflight' = inflight \cup {issued}
                 /\ UNCHANGED <<ctor, apiKey, warned, last>>

\* request(endpoint, params) up to its first suspension: the credential
\* check, the URL, and the call of fetch
Request(op, endpoint, params) ==
    LET call == Call(op, endpoint, params)
    IN  IF NoApiKey(apiKey)
        THEN /\ last' = <<Completed(call, NoResponse,
                                    Thrown([name |-> "Error",
                                            message |-> ConfigurationMessage]))>>
             /\ UNCHANGED <<ctor, apiKey, warned, inflight>>
        ELSE LET issued == [call EXCEPT
                              !.gets = <<Get(BuildUrl(endpoint, params), apiKey)>>]
             IN  /\ Cardinality(inflight) < MaxInFlight
                 /\ issued \notin inflight
                 /\ inflight' = inflight \cup {issued}
                 /\ UNCHANGED <<ctor, apiKey, warned, last>>

SearchPhotos(query, options) ==
    Request("searchPhotos", "/search", << <<"query", Str(query)>> >> \o options)

GetCuratedPhotos(options) == Request("getCuratedPhotos", "/curated", options)

GetPhoto(id) == Request("getPhoto", "/photos/" \o ToString(id), <<>>)

SearchVideos(query, options) ==
    Request("searchVideos", "/videos/search", << <<"query", Str(query)>> >> \o options)

GetPopularVideos(options) == Request("getPopularVideos", "/videos/popular", options)

GetVideoSingle(id) == Request("getVideo", "/videos/" \o ToString(id), <<>>)
GetVideo(id) == Request("getVideo", "/videos/videos/" \o ToString(id), <<>>)

GetFeaturedCollections(options) ==
    Request("getFeaturedCollections", "/collections/featured", options)

GetMyCollectionsFeatured(options) ==
    Request("getMyCollections", "/collections/featured", options)
GetMyCollections(options) == Request("getMyCollections", "/collections", options)

GetCollectionMedia(id, options) ==
    Request("getCollectionMedia", "/collections/" \o id, options)

\* fetch resolves with a response: request() runs to its return or throw
FetchResolvedCurrentKey(call, response) ==
    /\ call \in inflight
    /\ inflight' = inflight \ {call}
    /\ last' = <<Completed([call EXCEPT !.gets = <<Get(@[1].url, apiKey)>>],
                           <<response>>,
                           IF NoApiKey(apiKey)
                           THEN Thrown([name |-> "Error",
                                        message |-> ConfigurationMessage])
                           ELSE HandleResponse(response))>>
    /\ UNCHANGED <<ctor, apiKey, warned>>
FetchResolved(call, response) ==
    /\ call \in inflight
    /\ inflight' = inflight \ {call}
    /\ last' = <<Completed(call, <<response>>, HandleResponse(response))>>
    /\ UNCHANGED <<ctor, apiKey, warned>>

FetchRejectedRetry(call) ==
    /\ call \in inflight
    /\ IF Len(call.gets) < 2
       THEN /\ inflight' = (inflight \ {call})
                             \cup {[call EXCEPT !.gets = Append(@, @[1])]}
            /\ UNCHANGED last
       ELSE /\ inflight' = inflight \ {call}
            /\ last' = <<Completed(call, NoResponse, Thrown(TransportError))>>
    /\ UNCHANGED <<ctor, apiKey, warned>>

\* fetch rejects: the rejection leaves request() as it is
FetchRejectedWrapped(call) ==
    /\ call \in inflight
    /\ inflight' = inflight \ {call}
    /\ last' = <<Completed(call, NoResponse,
                           Thrown([name |-> "Error",
                                   message |-> "Pexels API Error (0): "
                                                 \o TransportError.message]))>>
    /\ UNCHANGED <<ctor, apiKey, warned>>

FetchRejected(call) ==
    /\ call \in inflight
    /\ inflight' = inflight \ {call}
    /\ last' = <<Completed(call, NoResponse, Thrown(TransportError))>>
    /\ UNCHANGED <<ctor, apiKey, warned>>

Operation ==
    \/ \E q \in Queries, o \in PhotoSearchOptions : SearchPhotos(q, o) /\ UNCHANGED <<handlers, reply>>
    \/ \E o \in PagingOptions : GetCuratedPhotos(o) /\ UNCHANGED <<handlers, reply>>
    \/ \E id \in PhotoIds : GetPhoto(id) /\ UNCHANGED <<handlers, reply>>
    \/ \E q \in Queries, o \in VideoSearchOptions : SearchVideos(q, o) /\ UNCHANGED <<handlers, reply>>
    \/ \E o \in PopularVideoOptions : GetPopularVideos(o) /\ UNCHANGED <<handlers, reply>>
    \/ \E id \in VideoIds : GetVideo(id) /\ UNCHANGED <<handlers, reply>>
    \/ \E o \in PagingOptions : GetFeaturedCollections(o) /\ UNCHANGED <<handlers, reply>>
    \/ \E o \in PagingOptions : GetMyCollections(o) /\ UNCHANGED <<handlers, reply>>
    \/ \E id \in CollectionIds, o \in CollectionMediaOptions : GetCollectionMedia(id, o) /\ UNCHANGED <<handlers, reply>>

Next ==
    \/ \E key \in Keys : SetApiKey(key) /\ UNCHANGED <<handlers, reply>>
    \/ Operation
    \/ \E call \in inflight, response \in BasicResponses : FetchResolved(call, response) /\ UNCHANGED <<handlers, reply>>
    \/ \E call \in inflight : FetchRejected(call) /\ UNCHANGED <<handlers, reply>>

Spec == InitServer /\ [][Next]_vars

\* the same client, one operation of each routing family, every response
NextResponses ==
    \/ \E key \in Keys : SetApiKey(key) /\ UNCHANGED <<handlers, reply>>
    \/ \E id \in PhotoIds : GetPhoto(id) /\ UNCHANGED <<handlers, reply>>
    \/ \E id \in VideoIds : GetVideo(id) /\ UNCHANGED <<handlers, reply>>
    \/ \E call \in inflight, response \in AllResponses : FetchResolved(call, response) /\ UNCHANGED <<handlers, reply>>
    \/ \E call \in inflight : FetchRejected(call) /\ UNCHANGED <<handlers, reply>>

SpecResponses == InitServer /\ [][NextResponses]_vars

\* a client constructed in any way, one operation, one answer of each kind
NextConstruction ==
    \/ \E key \in Keys : SetApiKey(key) /\ UNCHANGED <<handlers, reply>>
    \/ \E id \in PhotoIds : GetPhoto(id) /\ UNCHANGED <<handlers, reply>>
    \/ \E call \in inflight, response \in BasicResponses : FetchResolved(call, response) /\ UNCHANGED <<handlers, reply>>
    \/ \E call \in inflight : FetchRejected(call) /\ UNCHANGED <<handlers, reply>>

SpecConstruction == Init /\ [][NextConstruction]_vars

\* ------------------------------------------------- tools (src/main.ts)
\* main.ts: new PexelsService() in a process whose environment may hold
\* PEXELS_API_KEY
InitProcess == \E env \in EnvValues : Construct(<<>>, env)

\* arguments of the tools, as the records a client sends; an optional
\* argument that was not supplied is undefined
SearchPhotosArgs ==
    { [query |-> Str("red car"), orientation |-> Str("landscape"),
       size |-> Undefined, color |-> Undefined, page |-> Undefined,
       perPage |-> Num(80), locale |-> Undefined],
      [query |-> Str("red car"), orientation |-> Undefined,
       size |-> Str("large"), color |-> Str("red"), page |-> Num(2),
       perPage |-> Undefined, locale |-> Str("en-US")] }
PagingArgs ==
    { [page |-> Undefined, perPage |-> Undefined],
      [page |-> Num(2), perPage |-> Num(15)],
      [page |-> Dec(5), perPage |-> Undefined],
      [page |-> Num(0), perPage |-> Num(81)] }
IdArgs == { [id |-> Num(42)], [id |-> Num(-5)] }
SearchVideosArgs ==
    { [query |-> Str("sea"), orientation |-> Str("portrait"),
       size |-> Str("small"), page |-> Num(1), perPage |-> Num(80),
       locale |-> Str("en-US")] }
PopularVideosArgs ==
    { [minWidth |-> Num(1920), minHeight |-> Num(1080), minDuration |-> Num(5),
       maxDuration |-> Num(30), page |-> Num(1), perPage |-> Num(80)],
      [minWidth |-> Num(0), minHeight |-> Undefined, minDuration |-> Undefined,
       maxDuration |-> Undefined, page |-> Undefined, perPage |-> Num(1)] }
CollectionMediaArgs ==
    { [id |-> Str("abc"), type |-> Str("photos"), sort |-> Str("asc"),
       page |-> Num(1), perPage |-> Num(80)] }
DownloadPhotoArgs ==
    { [id |-> Num(42), size |-> Undefined],
      [id |-> Num(42), size |-> Str("large")],
      [id |-> Num(42), size |-> Str("tiny")],
      [id |-> Num(42), size |-> Str("huge")],
      [id |-> Num(0), size |-> Undefined] }
DownloadVideoArgs ==
    { [id |-> Num(7), quality |-> Undefined],
      [id |-> Num(7), quality |-> Str("sd")],
      [id |-> Num(7), quality |-> Str("4k")],
      [id |-> Num(-5), quality |-> Undefined] }

\* the {id} of a resource URI
ResourceIds == {"42", "abc", "-5", "12abc"}

\* zod: z.number(), .positive(), .min(m), .max(m), z.string(), z.enum(values),
\* .optional()
ZNumber(v) == v.t \in {"number", "decimal"}
Scaled(v) == IF v.t = "decimal" THEN v.v ELSE 10 * v.v
ZPositive(v) == ZNumber(v) /\ Scaled(v) > 0
ZString(v) == v.t = "string"
ZEnum(v, values) == v.t = "string" /\ v.v \in values
ZOptional(v, valid) == v.t = "undefined" \/ valid

\* page: z.number().positive().optional()
\* perPage: z.number().min(1).max(80).optional()
ValidPaging(args) ==
    /\ ZOptional(args.page, ZPositive(args.page))
    /\ ZOptional(args.perPage,
                 /\ ZNumber(args.perPage)
                 /\ Scaled(args.perPage) >= 10 * 1
                 /\ Scaled(args.perPage) <= 10 * 80)

\* the schema of each tool
ValidArgs(tool, args) ==
    CASE tool = "searchPhotos" ->
           /\ ZString(args.query)
           /\ ZOptional(args.orientation,
                        ZEnum(args.orientation, {"landscape", "portrait", "square"}))
           /\ ZOptional(args.size, ZEnum(args.size, {"large", "medium", "small"}))
           /\ ZOptional(args.color, ZString(args.color))
           /\ ZOptional(args.locale, ZString(args.locale))
           /\ ValidPaging(args)
      [] tool = "downloadPhoto" ->
           /\ ZPositive(args.id)
           /\ ZOptional(args.size,
                        ZEnum(args.size, {"original", "large2x", "large", "medium",
                                          "small", "portrait", "landscape", "tiny"}))
      [] tool = "downloadVideo" ->
           /\ ZPositive(args.id)
           /\ ZOptional(args.quality, ZEnum(args.quality, {"hd", "sd"}))
      [] tool \in {"getCuratedPhotos", "getFeaturedCollections"} ->
           ValidPaging(args)
      [] tool \in {"getPhoto", "getVideo"} -> ZPositive(args.id)
      [] tool = "searchVideos" ->
           /\ ZString(args.query)
           /\ ZOptional(args.orientation,
                        ZEnum(args.orientation, {"landscape", "portrait", "square"}))
           /\ ZOptional(args.size, ZEnum(args.size, {"large", "medium", "small"}))
           /\ ZOptional(args.locale, ZString(args.locale))
           /\ ValidPaging(args)
      [] tool = "getPopularVideos" ->
           /\ ZOptional(args.minWidth, ZNumber(args.minWidth))
           /\ ZOptional(args.minHeight, ZNumber(args.minHeight))
           /\ ZOptional(args.minDuration, ZNumber(args.minDuration))
           /\ ZOptional(args.maxDuration, ZNumber(args.maxDuration))
           /\ ValidPaging(args)
      [] tool = "getCollectionMedia" ->
           /\ ZString(args.id)
           /\ ZOptional(args.type, ZEnum(args.type, {"photos", "videos"}))
           /\ ZOptional(args.sort, ZEnum(args.sort, {"asc", "desc"}))
           /\ ValidPaging(args)

\* .optional().default(value): the arguments as the handler receives them
Parsed(tool, args) ==
    CASE tool = "downloadPhoto" /\ args.size.t = "undefined" ->
           [args EXCEPT !.size = Str("original")]
      [] tool = "downloadVideo" /\ args.quality.t = "undefined" ->
           [args EXCEPT !.quality = Str("hd")]
      [] OTHER -> args

\* the answer to an invocation: the texts of its content, the warnings the
\* handler wrote to the console, and the call of the client it made, if any
Reply(handler, args, kind, texts, warnings, completion) ==
    [handler |-> handler, args |-> args, kind |-> kind, texts |-> texts,
     warnings |-> warnings, completion |-> completion]

\* the try block of a handler after its call of the client returned
Render(handler, args, outcome) ==
    IF handler \in {"photo", "video", "collection"}
    THEN Answer(<<JSONStringifyResponse(outcome)>>)
    ELSE RenderTool(handler, args, outcome)

\* a handler whose catch covers the call of the client only
RepliedUncaughtRender(handler, args, completion) ==
    LET outcome == completion.outcome
        rendered == Render(handler, args, outcome)
    IN  IF outcome.kind = "thrown"
        THEN Reply(handler, args, "answered",
                   Catch(handler, args, outcome.error), <<>>, <<completion>>)
        ELSE IF rendered.threw
        THEN Reply(handler, args, "fault", <<>>, rendered.warnings, <<completion>>)
        ELSE Reply(handler, args, "answered", rendered.content,
                   rendered.warnings, <<completion>>)

\* the handler from the settling of its call of the client to its return:
\* the rest of the try block, or the catch block
Replied(handler, args, completion) ==
    LET outcome == completion.outcome
        rendered == IF outcome.kind = "thrown" THEN Raise(outcome.error)
                    ELSE Render(handler, args, outcome)
    IN  Reply(handler, args, "answered",
              IF rendered.threw THEN Catch(handler, args, rendered.error)
              ELSE rendered.content,
              rendered.warnings, <<completion>>)

\* the handler called the client and is suspended at its await: on the
\* promise of a call that waits for fetch, or on one that the configuration
\* error has settled already
AfterCall(handler, args) ==
    /\ Cardinality(handlers) < MaxInFlight
    /\ handlers' = handlers
                     \cup {IF inflight' # inflight
                           THEN [handler |-> handler, args |-> args,
                                 call |-> CHOOSE c \in inflight' \ inflight : TRUE,
                                 settled |-> <<>>]
                           ELSE [handler |-> handler, args |-> args,
                                 call |-> last'[1].call, settled |-> <<last'[1]>>]}
    /\ reply' = reply

\* the server refuses the invocation (invalid arguments, unknown tool): no
\* handler runs
Refused(handler, args) ==
    /\ reply' = <<Reply(handler, args, "refused", <<>>, <<>>, <<>>)>>
    /\ UNCHANGED <<ctor, apiKey, warned, inflight, last, handlers>>

\* the handlers of the tools; each is run on arguments its schema accepts
ToolSearchPhotos(args) ==
    IF ~ValidArgs("searchPhotos", args) THEN Refused("searchPhotos", args)
    ELSE /\ SearchPhotos(args.query.v,
                         << <<"orientation", args.orientation>>,
                            <<"size", args.size>>, <<"color", args.color>>,
                            <<"locale", args.locale>>, <<"page", args.page>>,
                            <<"per_page", args.perPage>> >>)
         /\ AfterCall("searchPhotos", args)

ToolDownloadPhotoFetching(args) ==
    IF ~ValidArgs("downloadPhoto", args) THEN Refused("downloadPhoto", args)
    ELSE /\ Request("getPhoto", "/photos/" \o ToString(args.id.v) \o "/download",
                    <<>>)
         /\ AfterCall("downloadPhoto", Parsed("downloadPhoto", args))
ToolDownloadPhoto(args) ==
    IF ~ValidArgs("downloadPhoto", args) THEN Refused("downloadPhoto", args)
    ELSE /\ GetPhoto(args.id.v)
         /\ AfterCall("downloadPhoto", Parsed("downloadPhoto", args))

ToolDownloadVideo(args) ==
    IF ~ValidArgs("downloadVideo", args) THEN Refused("downloadVideo", args)
    ELSE /\ GetVideo(args.id.v)
         /\ AfterCall("downloadVideo", Parsed("downloadVideo", args))

ToolGetCuratedPhotos(args) ==
    IF ~ValidArgs("getCuratedPhotos", args) THEN Refused("getCuratedPhotos", args)
    ELSE /\ GetCuratedPhotos(<< <<"page", args.page>>,
                                <<"per_page", args.perPage>> >>)
         /\ AfterCall("getCuratedPhotos", args)

ToolGetPhoto(args) ==
    IF ~ValidArgs("getPhoto", args) THEN Refused("getPhoto", args)
    ELSE GetPhoto(args.id.v) /\ AfterCall("getPhoto", args)

ToolSearchVideos(args) ==
    IF ~ValidArgs("searchVideos", args) THEN Refused("searchVideos", args)
    ELSE /\ SearchVideos(args.query.v,
                         << <<"orientation", args.orientation>>,
                            <<"size", args.size>>, <<"locale", args.locale>>,
                            <<"page", args.page>>, <<"per_page", args.perPage>> >>)
         /\ AfterCall("searchVideos", args)

ToolGetPopularVideosCamel(args) ==
    IF ~ValidArgs("getPopularVideos", args) THEN Refused("getPopularVideos", args)
    ELSE /\ GetPopularVideos(<< <<"minWidth", args.minWidth>>,
                                <<"minHeight", args.minHeight>>,
                                <<"minDuration", args.minDuration>>,
                                <<"maxDuration", args.maxDuration>>,
                                <<"page", args.page>>,
                                <<"perPage", args.perPage>> >>)
         /\ AfterCall("getPopularVideos", args)
ToolGetPopularVideos(args) ==
    IF ~ValidArgs("getPopularVideos", args) THEN Refused("getPopularVideos", args)
    ELSE /\ GetPopularVideos(<< <<"min_width", args.minWidth>>,
                                <<"min_height", args.minHeight>>,
                                <<"min_duration", args.minDuration>>,
                                <<"max_duration", args.maxDuration>>,
                                <<"page", args.page>>,
                                <<"per_page", args.perPage>> >>)
         /\ AfterCall("getPopularVideos", args)

ToolGetVideo(args) ==
    IF ~ValidArgs("getVideo", args) THEN Refused("getVideo", args)
    ELSE GetVideo(args.id.v) /\ AfterCall("getVideo", args)

ToolGetFeaturedCollections(args) ==
    IF ~ValidArgs("getFeaturedCollections", args)
    THEN Refused("getFeaturedCollections", args)
    ELSE /\ GetFeaturedCollections(<< <<"page", args.page>>,
                                      <<"per_page", args.perPage>> >>)
         /\ AfterCall("getFeaturedCollections", args)

ToolGetCollectionMedia(args) ==
    IF ~ValidArgs("getCollectionMedia", args)
    THEN Refused("getCollectionMedia", args)
    ELSE /\ GetCollectionMedia(args.id.v,
                               << <<"type", args.type>>, <<"sort", args.sort>>,
                                  <<"page", args.page>>,
                                  <<"per_page", args.perPage>> >>)
         /\ AfterCall("getCollectionMedia", args)

\* an invocation of a tool the server has not registered: main.ts registers
\* no tool that calls pexelsService.setApiKey
ToolSetApiKey(args) == Refused("setApiKey", args)

\* the handlers of the resources pexels-photo://{id}, pexels-video://{id}
\* and pexels-collection://{id}
InvalidId(handler, what, id) ==
    /\ reply' = <<Reply(handler, [id |-> Str(id)], "answered",
                        <<"Invalid " \o what \o " ID: " \o id>>, <<>>, <<>>)>>
    /\ UNCHANGED <<ctor, apiKey, warned, inflight, last, handlers>>

ResourcePhotoUnparsed(id) ==
    LET photoId == ParseInt(id)
    IN  IF photoId.t = "NaN" THEN GetPhoto(0) /\ AfterCall("photo", [id |-> Str(id)])
        ELSE GetPhoto(photoId.v) /\ AfterCall("photo", [id |-> Str(id)])
ResourcePhoto(id) ==
    LET photoId == ParseInt(id)
    IN  IF photoId.t = "NaN" THEN InvalidId("photo", "photo", id)
        ELSE GetPhoto(photoId.v) /\ AfterCall("photo", [id |-> Str(id)])

ResourceVideo(id) ==
    LET videoId == ParseInt(id)
    IN  IF videoId.t = "NaN" THEN InvalidId("video", "video", id)
        ELSE GetVideo(videoId.v) /\ AfterCall("video", [id |-> Str(id)])

ResourceCollection(id) ==
    GetCollectionMedia(id, <<>>) /\ AfterCall("collection", [id |-> Str(id)])

\* the call of the client settles and the handler runs to its return
HandlerResolved(h, response) ==
    /\ h \in handlers
    /\ h.settled = <<>>
    /\ FetchResolved(h.call, response)
    /\ handlers' = handlers \ {h}
    /\ reply' = <<Replied(h.handler, h.args, last'[1])>>

HandlerRejected(h) ==
    /\ h \in handlers
    /\ h.settled = <<>>
    /\ FetchRejected(h.call)
    /\ handlers' = handlers \ {h}
    /\ reply' = <<Replied(h.handler, h.args, last'[1])>>

\* the handler resumes from the await of a call that had settled at once
HandlerResumed(h) ==
    /\ h \in handlers
    /\ h.settled # <<>>
    /\ handlers' = handlers \ {h}
    /\ reply' = <<Replied(h.handler, h.args, h.settled[1])>>
    /\ UNCHANGED <<ctor, apiKey, warned, inflight, last>>

\* what the Pexels API answers to each operation when it succeeds
SuccessBody(op) ==
    CASE op \in {"searchPhotos", "getCuratedPhotos"} -> PhotosPageBody
      [] op \in {"searchVideos", "getPopularVideos"} -> VideosPageBody
      [] op = "getPhoto" -> PhotoBody
      [] op = "getVideo" -> VideoBody
      [] op \in {"getFeaturedCollections", "getMyCollections"} -> CollectionsPageBody
      [] op = "getCollectionMedia" -> MediaPageBody

RateHeaders == Headers(<<"20000">>, <<"19999">>, <<"1700000000">>)

ToolResponses(op) ==
    { Response(200, SuccessBody(op), RateHeaders),
      Response(200, SuccessBody(op), NoHeaders),
      Response(401, JsonError, NoHeaders) }

\* the server's tools that list or get
NextTools ==
    \/ \E args \in SearchPhotosArgs : ToolSearchPhotos(args)
    \/ \E args \in PagingArgs : ToolGetCuratedPhotos(args)
    \/ \E args \in IdArgs : ToolGetPhoto(args)
    \/ \E args \in SearchVideosArgs : ToolSearchVideos(args)
    \/ \E args \in PopularVideosArgs : ToolGetPopularVideos(args)
    \/ \E args \in IdArgs : ToolGetVideo(args)
    \/ \E args \in PagingArgs : ToolGetFeaturedCollections(args)
    \/ \E args \in CollectionMediaArgs : ToolGetCollectionMedia(args)
    \/ \E h \in handlers : \E response \in ToolResponses(h.call.op) :
          HandlerResolved(h, response)
    \/ \E h \in handlers : HandlerRejected(h)
    \/ \E h \in handlers : HandlerResumed(h)

SpecTools == InitProcess /\ [][NextTools]_vars

\* the download tools, with every payload a photo or video may come as
DownloadResponses(op) ==
    { Response(200, b, h) :
         b \in IF op = "getPhoto"
               THEN {PhotoBody, PhotoLargeOnlyBody, PhotoNoSrcBody, NullBody, JsonOther}
               ELSE {VideoBody, VideoSdOnlyBody, VideoNoFilesBody, NullBody, JsonOther},
         h \in {RateHeaders, NoHeaders} }
    \cup { Response(404, JsonError, NoHeaders), Response(200, PlainText, NoHeaders) }

NextDownloads ==
    \/ \E args \in DownloadPhotoArgs : ToolDownloadPhoto(args)
    \/ \E args \in DownloadVideoArgs : ToolDownloadVideo(args)
    \/ \E h \in handlers : \E response \in DownloadResponses(h.call.op) :
          HandlerResolved(h, response)
    \/ \E h \in handlers : HandlerRejected(h)
    \/ \E h \in handlers : HandlerResumed(h)

SpecDownloads == InitProcess /\ [][NextDownloads]_vars

\* the whole server: every tool and every resource, one invocation of each
\* kind, each answer of the API
ServerResponses(op) ==
    { Response(200, SuccessBody(op), RateHeaders),
      Response(200, JsonOther, RateHeaders),
      Response(401, JsonError, NoHeaders) }

NextServer ==
    \/ \E args \in {a \in SearchPhotosArgs : a.perPage = Num(80)} :
          ToolSearchPhotos(args)
    \/ \E args \in {a \in DownloadPhotoArgs : a.size = Str("tiny")} :
          ToolDownloadPhoto(args)
    \/ \E args \in {a \in DownloadVideoArgs : a.quality = Undefined} :
          ToolDownloadVideo(args)
    \/ \E args \in {a \in PagingArgs : a.page = Dec(5)} :
          ToolGetCuratedPhotos(args)
    \/ \E args \in IdArgs : ToolGetPhoto(args)
    \/ \E args \in {a \in SearchVideosArgs : a.perPage = Num(80)} :
          ToolSearchVideos(args)
    \/ \E args \in {a \in PopularVideosArgs : a.perPage = Num(1)} :
          ToolGetPopularVideos(args)
    \/ \E args \in IdArgs : ToolGetVideo(args)
    \/ \E args \in {a \in PagingArgs : a.page = Num(2)} :
          ToolGetFeaturedCollections(args)
    \/ \E args \in CollectionMediaArgs :
          ToolGetCollectionMedia(args)
    \/ \E key \in {"k1"} : ToolSetApiKey([apiKey |-> Str(key)])
    \/ \E id \in ResourceIds : ResourcePhoto(id)
    \/ \E id \in ResourceIds : ResourceVideo(id)
    \/ \E id \in {"abc"} : ResourceCollection(id)
    \/ \E h \in handlers : \E response \in ServerResponses(h.call.op) :
          HandlerResolved(h, response)
    \/ \E h \in handlers : HandlerRejected(h)
    \/ \E h \in handlers : HandlerResumed(h)

SpecServer == InitProcess /\ [][NextServer]_vars

\* ------------------------------------------------- reading a URL back
\* 0, or the index of the first occurrence of the character c in s
FirstIndex(s, c) ==
    LET I == {i \in 1..Len(s) : SubSeq(s, i, i) = c}
    IN  IF I = {} THEN 0 ELSE CHOOSE i \in I : \A j \in I : i <= j

\* the pieces of s between the occurrences of the character sep
RECURSIVE Split(_, _)
Split(s, sep) ==
    LET i == FirstIndex(s, sep)
    IN  IF i = 0 THEN <<s>>
        ELSE <<SubSeq(s, 1, i - 1)>> \o Split(SubSeq(s, i + 1, Len(s)), sep)

DecodeEscape(e) ==
    CASE e = "%26" -> "&"
      [] e = "%3D" -> "="
      [] e = "%23" -> "#"
      [] e = "%2B" -> "+"
      [] e = "%2F" -> "/"
      [] e = "%3F" -> "?"
      [] OTHER -> e

\* the text a form-urlencoded name or value stands for
RECURSIVE Decode(_)
Decode(s) ==
    IF s = "" THEN ""
    ELSE IF Head(s) = "+" THEN " " \o Decode(Tail(s))
    ELSE IF Head(s) = "%" /\ Len(s) >= 3
         THEN DecodeEscape(SubSeq(s, 1, 3)) \o Decode(SubSeq(s, 4, Len(s)))
    ELSE Head(s) \o Decode(Tail(s))

\* the URL after the host, up to the query
UrlPath(url) ==
    LET rest == SubSeq(url, Len(baseUrl) + 1, Len(url))
        q == FirstIndex(rest, "?")
    IN  IF q = 0 THEN rest ELSE SubSeq(rest, 1, q - 1)

\* the name/value pairs of the URL's query, in order; <<>> without a query
UrlQuery(url) ==
    LET q == FirstIndex(url, "?")
        pairs == Split(SubSeq(url, q + 1, Len(url)), "&")
    IN  IF q = 0 THEN <<>>
        ELSE [i \in 1..Len(pairs) |->
                LET e == FirstIndex(pairs[i], "=")
                IN  IF e = 0 THEN <<Decode(pairs[i]), "">>
                    ELSE <<Decode(SubSeq(pairs[i], 1, e - 1)),
                           Decode(SubSeq(pairs[i], e + 1, Len(pairs[i])))>>]

\* the calls whose request has been handed to the transport or has completed
Calls == inflight \cup {last[i].call : i \in DOMAIN last}

IsRequestError(outcome, status) ==
    /\ outcome.kind = "thrown"
    /\ outcome.error.name = "Error"
    /\ StartsWith(outcome.error.message, StatusPrefix(status))

\* the message of a request error, after the status it carries
ResolvedMessage(outcome, status) ==
    SubSeq(outcome.error.message, Len(StatusPrefix(status)) + 1,
           Len(outcome.error.message))

\* ------------------------------------------------------------------ claims

\* C1: a call that starts while the held credential is empty fails with the
\* configuration error, and the transport is not invoked for it; no request
\* in flight was started with an empty credential.
C1_NoCredentialNoFetch ==
    /\ \A c \in inflight : c.keyAtStart # ""
    /\ \A i \in DOMAIN last :
          last[i].call.keyAtStart = "" =>
             /\ IsConfigurationError(last[i].outcome)
             /\ last[i].call.gets = <<>>
             /\ last[i].response = NoResponse

C1_Witness ==
    /\ last # <<>>
    /\ last[1].call.op = "getVideo"
    /\ last[1].call.keyAtStart = ""
    /\ IsConfigurationError(last[1].outcome)

\* C2: every GET handed to the transport carries, as its Authorization
\* header, exactly the credential held when the call started, which is not
\* empty.
C2_AuthorizationIsCredential ==
    \A c \in Calls : \A i \in DOMAIN c.gets :
        /\ c.gets[i].headers.Authorization = c.keyAtStart
        /\ c.gets[i].headers.Authorization # ""

C2_Witness ==
    \E c \in inflight :
        /\ c.keyAtStart = "k1"
        /\ apiKey = "k2"
        /\ c.gets[1].headers.Authorization = "k1"

\* C3: a call that repeats the request of a call that just failed with the
\* configuration error, a credential being held by then, is handed to the
\* transport, and returns a result when the answer is 200 with a JSON body.
C3_RetryAfterConfigurationError ==
    \A i \in DOMAIN last :
        (last[i].retry /\ last[i].call.keyAtStart # "") =>
           /\ Len(last[i].call.gets) = 1
           /\ \A j \in DOMAIN last[i].response :
                 (last[i].response[j].status = 200
                    /\ JSONParse(last[i].response[j].body).ok)
                 => last[i].outcome.kind = "returned"

C3_Witness ==
    /\ last # <<>>
    /\ last[1].retry
    /\ last[1].call.op = "searchPhotos"
    /\ last[1].call.keyAtStart = "k1"
    /\ last[1].outcome.kind = "returned"

\* C4: the URL of a request is the host followed by the endpoint path when
\* the path starts with "/videos", and the host followed by "/v1" and the
\* path for every other path, whatever follows the prefix.
C4_Routing ==
    \A c \in Calls : \A i \in DOMAIN c.gets :
        /\ StartsWith(c.gets[i].url, baseUrl)
        /\ UrlPath(c.gets[i].url) =
              (IF StartsWith(c.endpoint, "/videos") THEN c.endpoint
               ELSE "/v1" \o c.endpoint)

C4_Witness ==
    /\ \E c \in inflight :
          /\ c.endpoint = "/videos/videos/42"
          /\ c.gets[1].url = "https://api.pexels.com/videos/videos/42"
    /\ \E i \in DOMAIN last :
          /\ last[i].call.endpoint = "/collections/videos"
          /\ last[i].call.gets # <<>>
          /\ UrlPath(last[i].call.gets[1].url) = "/v1/collections/videos"

\* C10: the names in the query of a request's URL are exactly the names of
\* the parameters whose value is not undefined, each once and each with the
\* textual form of its value (0 and the empty string included); a URL built
\* from no such parameter has no query part.
NaturalForm(value) ==
    CASE value.t = "number" -> ToString(value.v)
      [] value.t = "decimal" /\ value.v > 0 ->
           ToString(value.v \div 10) \o "." \o ToString(value.v % 10)
      [] OTHER -> value.v

Present(params) == {i \in DOMAIN params : params[i][2].t # "undefined"}

C10_QueryIsPresentParams ==
    \A c \in Calls : \A i \in DOMAIN c.gets :
        LET query == UrlQuery(c.gets[i].url)
        IN  /\ Len(query) = Cardinality(Present(c.params))
            /\ {query[j][1] : j \in DOMAIN query}
                 = {c.params[k][1] : k \in Present(c.params)}
            /\ \A k \in Present(c.params) :
                  \E j \in DOMAIN query :
                     query[j] = <<c.params[k][1], NaturalForm(c.params[k][2])>>
            /\ (Present(c.params) = {}) = (FirstIndex(c.gets[i].url, "?") = 0)

C10_Witness ==
    /\ \E c \in inflight :
          /\ c.params = << <<"query", Str("red car")>>, <<"color", Str("")>>,
                           <<"page", Num(0)>> >>
          /\ c.gets[1].url
               = "https://api.pexels.com/v1/search?query=red+car&color=&page=0"
    /\ \E i \in DOMAIN last :
          /\ last[i].call.params
               = << <<"page", Undefined>>, <<"per_page", Undefined>> >>
          /\ last[i].call.gets # <<>>
          /\ last[i].call.gets[1].url = "https://api.pexels.com/v1/curated"

\* the completed calls that received a response with a non-success status
Failed == {i \in DOMAIN last :
             last[i].response # NoResponse /\ ~ResponseOk(last[i].response[1])}

\* the completed calls that returned a result
Succeeded == {i \in DOMAIN last : last[i].outcome.kind = "returned"}

\* C5: a response with status 401, 404 or 429 ends in a request error whose
\* message is the fixed text of that status, whatever the body holds.
C5_StatusMessages ==
    \A i \in Failed :
        LET status == last[i].response[1].status
            outcome == last[i].outcome
        IN  status \in {401, 404, 429} =>
              /\ IsRequestError(outcome, status)
              /\ ResolvedMessage(outcome, status) =
                    (CASE status = 401 -> "Unauthorized. Check your API key."
                       [] status = 404 -> "Resource not found."
                       [] status = 429 ->
                            "Rate limit exceeded. Please wait and try again.")

\* C6: on any other non-success status the message carries the body's error
\* field if it has one, else its code field, else the raw text of the body.
C6_GenericMessage ==
    \A i \in Failed :
        LET response == last[i].response[1]
            outcome == last[i].outcome
            json == JSONParse(response.body)
            has(name) == json.ok /\ Truthy(Field(json.value, name))
        IN  response.status \notin {401, 404, 429} =>
              /\ IsRequestError(outcome, response.status)
              /\ ResolvedMessage(outcome, response.status) =
                    (IF has("error") THEN Field(json.value, "error").v
                     ELSE IF has("code") THEN Field(json.value, "code").v
                     ELSE response.body)

\* C7: a response with a non-success status ends in one request error that
\* carries the status, with no payload and no rate-limit snapshot.
C7_OneRequestError ==
    \A i \in Failed :
        /\ IsRequestError(last[i].outcome, last[i].response[1].status)
        /\ last[i].outcome.data = Undefined
        /\ last[i].outcome.rateLimit = Undefined

\* the rate-limit headers the response carries, and those with a value
Returned3(response) == {h \in DOMAIN response.headers : response.headers[h] # <<>>}
Valued3(response) ==
    {h \in Returned3(response) : response.headers[h][1] # ""}

\* C8 as stated: a result has a rate-limit snapshot exactly when the response
\* carries at least one of the three headers.
C8_SnapshotIffHeaderReturned ==
    \A i \in Succeeded :
        (last[i].outcome.rateLimit # Undefined)
          = (Returned3(last[i].response[1]) # {})

IsIntegerText(s) == s # "" /\ DigitsPrefix(s) = s

HeaderField(h) ==
    CASE h = "X-Ratelimit-Limit" -> "limit"
      [] h = "X-Ratelimit-Remaining" -> "remaining"
      [] h = "X-Ratelimit-Reset" -> "reset"

\* C8, amended: a result has a rate-limit snapshot exactly when the response
\* carries at least one of the three headers with a non-empty value; with
\* none of the headers there is no snapshot, and with exactly one, holding an
\* integer, the snapshot has that integer and null in the other two fields.
C8_SnapshotIffHeaderValued ==
    \A i \in Succeeded :
        LET response == last[i].response[1]
            rateLimit == last[i].outcome.rateLimit
        IN  /\ (rateLimit # Undefined) = (Valued3(response) # {})
            /\ Returned3(response) = {} => rateLimit = Undefined
            /\ \A h \in Returned3(response) :
                  (Returned3(response) = {h} /\ IsIntegerText(response.headers[h][1]))
                  => /\ rateLimit # Undefined
                     /\ rateLimit[HeaderField(h)].t = "number"
                     /\ ToString(rateLimit[HeaderField(h)].v) = response.headers[h][1]
                     /\ \A g \in DOMAIN response.headers \ {h} :
                           rateLimit[HeaderField(g)] = Null

C8_Witness ==
    \E i \in Succeeded :
        /\ Returned3(last[i].response[1]) = {"X-Ratelimit-Remaining"}
        /\ last[i].response[1].headers["X-Ratelimit-Remaining"] = <<"0">>
        /\ last[i].outcome.rateLimit
             = [t |-> "object", limit |-> Null, remaining |-> Num(0), reset |-> Null]

\* C9: every field of a rate-limit snapshot is an integer or null, and is
\* null when its header is absent or does not hold an integer.
C9_FieldsIntegerOrNull ==
    \A i \in Succeeded :
        LET response == last[i].response[1]
            rateLimit == last[i].outcome.rateLimit
        IN  rateLimit # Undefined =>
              \A h \in DOMAIN response.headers :
                 /\ rateLimit[HeaderField(h)].t \in {"number", "null"}
                 /\ (h \notin Returned3(response)
                       \/ ~IsIntegerText(response.headers[h][1]))
                    => rateLimit[HeaderField(h)] = Null

\* C11: no call hands more than one GET to the transport: a call in flight
\* has issued exactly one, and a call that completed after an answer of any
\* kind, or after a failure of the transport, has issued exactly one.
C11_SingleAttempt ==
    /\ \A c \in inflight : Len(c.gets) = 1
    /\ \A i \in DOMAIN last :
          /\ Len(last[i].call.gets) <= 1
          /\ (last[i].response # NoResponse
                \/ ~IsConfigurationError(last[i].outcome))
             => Len(last[i].call.gets) = 1

C11_Witness ==
    \E i \in DOMAIN last :
        /\ last[i].response # NoResponse
        /\ last[i].response[1].status = 500
        /\ last[i].outcome.kind = "thrown"
        /\ Len(last[i].call.gets) = 1

\* C12: every call getVideo(id) that is issued asks for the path
\* "/videos/videos/<id>", and its URL is the host followed by that path,
\* without "/v1" and without a query.
C12_GetVideoPath ==
    [][\A id \in VideoIds :
          (GetVideo(id) /\ inflight' # inflight) =>
             \E c \in inflight' \ inflight :
                /\ c.op = "getVideo"
                /\ c.endpoint = "/videos/videos/" \o ToString(id)
                /\ Len(c.gets) = 1
                /\ c.gets[1].url = baseUrl \o "/videos/videos/" \o ToString(id)]_vars

C12_Witness ==
    \E c \in inflight :
        /\ c.op = "getVideo"
        /\ c.endpoint = "/videos/videos/7"
        /\ c.gets[1].url = "https://api.pexels.com/videos/videos/7"

\* C13: each operation asks for its own endpoint path, so the three video
\* operations, and only they, are routed without "/v1".
VideoOperations == {"searchVideos", "getPopularVideos", "getVideo"}

EndpointsOf(op) ==
    CASE op = "searchPhotos" -> {"/search"}
      [] op = "getCuratedPhotos" -> {"/curated"}
      [] op = "getPhoto" -> {"/photos/" \o ToString(id) : id \in PhotoIds}
      [] op = "searchVideos" -> {"/videos/search"}
      [] op = "getPopularVideos" -> {"/videos/popular"}
      [] op = "getVideo" -> {"/videos/videos/" \o ToString(id) : id \in VideoIds}
      [] op = "getFeaturedCollections" -> {"/collections/featured"}
      [] op = "getMyCollections" -> {"/collections"}
      [] op = "getCollectionMedia" -> {"/collections/" \o id : id \in CollectionIds}

C13_FixedEndpoints ==
    \A c \in Calls :
        /\ c.endpoint \in EndpointsOf(c.op)
        /\ \A i \in DOMAIN c.gets :
              IF c.op \in VideoOperations
              THEN UrlPath(c.gets[i].url) = c.endpoint
              ELSE UrlPath(c.gets[i].url) = "/v1" \o c.endpoint

C13_Witness ==
    /\ \E c \in inflight :
          /\ c.op = "getPopularVideos"
          /\ UrlPath(c.gets[1].url) = "/videos/popular"
    /\ \E i \in DOMAIN last :
          /\ last[i].call.op = "getMyCollections"
          /\ last[i].call.gets # <<>>
          /\ UrlPath(last[i].call.gets[1].url) = "/v1/collections"

\* C14: a tool hands each argument it was given to the upstream request under
\* the snake-cased name (an id in the path): the query of the URL holds
\* exactly the supplied arguments, each under its upstream name with its
\* value, and no camel-cased name.
CamelNames == {"perPage", "minWidth", "minHeight", "minDuration", "maxDuration"}

Snake(name) ==
    CASE name = "perPage" -> "per_page"
      [] name = "minWidth" -> "min_width"
      [] name = "minHeight" -> "min_height"
      [] name = "minDuration" -> "min_duration"
      [] name = "maxDuration" -> "max_duration"
      [] OTHER -> name

EndsWith(s, suffix) ==
    Len(s) >= Len(suffix) /\ SubSeq(s, Len(s) - Len(suffix) + 1, Len(s)) = suffix

Translated(args, inPath) ==
    LET supplied == {n \in DOMAIN args \ inPath : args[n].t # "undefined"}
        expected == {<<Snake(n), NaturalForm(args[n])>> : n \in supplied}
    IN  \A c \in inflight' \ inflight :
           LET query == UrlQuery(c.gets[1].url)
           IN  /\ {query[j] : j \in DOMAIN query} = expected
               /\ Len(query) = Cardinality(supplied)
               /\ \A j \in DOMAIN query : query[j][1] \notin CamelNames
               /\ \A n \in inPath :
                     EndsWith(UrlPath(c.gets[1].url), "/" \o NaturalForm(args[n]))

C14_ArgumentsTranslated ==
    [][/\ \A a \in SearchPhotosArgs :
             (ToolSearchPhotos(a) /\ inflight' # inflight) => Translated(a, {})
       /\ \A a \in PagingArgs :
             (ToolGetCuratedPhotos(a) /\ inflight' # inflight) => Translated(a, {})
       /\ \A a \in IdArgs :
             (ToolGetPhoto(a) /\ inflight' # inflight) => Translated(a, {"id"})
       /\ \A a \in SearchVideosArgs :
             (ToolSearchVideos(a) /\ inflight' # inflight) => Translated(a, {})
       /\ \A a \in PopularVideosArgs :
             (ToolGetPopularVideos(a) /\ inflight' # inflight) => Translated(a, {})
       /\ \A a \in IdArgs :
             (ToolGetVideo(a) /\ inflight' # inflight) => Translated(a, {"id"})
       /\ \A a \in PagingArgs :
             (ToolGetFeaturedCollections(a) /\ inflight' # inflight)
             => Translated(a, {})
       /\ \A a \in CollectionMediaArgs :
             (ToolGetCollectionMedia(a) /\ inflight' # inflight)
             => Translated(a, {"id"})]_vars

C14_Witness ==
    /\ \E c \in inflight :
          c.gets[1].url
            = "https://api.pexels.com/v1/search?query=red+car&orientation=landscape&per_page=80"
    /\ \E i \in DOMAIN last :
          /\ last[i].call.gets # <<>>
          /\ last[i].call.gets[1].url
               = "https://api.pexels.com/videos/popular?min_width=0&per_page=1"

\* C15: setApiKey(value) can be called with every value in every state and
\* leaves the credential equal to value, changing nothing else and issuing no
\* request; nothing else changes the credential; and a request that starts
\* carries the credential held when it starts, which is the value last set.
C15_SetApiKeyFrame ==
    /\ [](\A key \in Keys :
             /\ ENABLED (SetApiKey(key) /\ apiKey' = key)
             /\ ~ENABLED (SetApiKey(key) /\ apiKey' # key))
    /\ [][/\ \A key \in Keys :
                SetApiKey(key) => /\ apiKey' = key
                                  /\ UNCHANGED <<ctor, warned, inflight, last>>
          /\ apiKey' # apiKey => \E key \in Keys : SetApiKey(key)
          /\ \A c \in inflight' \ inflight :
                /\ c.keyAtStart = apiKey
                /\ Len(c.gets) = 1
                /\ c.gets[1].headers.Authorization = apiKey]_vars

C15_Witness ==
    /\ apiKey = "k2"
    /\ \E c \in inflight : c.gets[1].headers.Authorization = "k2"
    /\ \E i \in DOMAIN last :
          /\ last[i].call.gets # <<>>
          /\ last[i].call.gets[1].headers.Authorization = "k1"

ArgGiven == ctor.arg # <<>>
EnvExists == ctor.env # <<>>

\* C17 as stated: after construction the credential is the argument if one
\* was given, otherwise PEXELS_API_KEY if it exists, otherwise empty, and the
\* warning was emitted exactly when neither was there; nothing warns later.
C17_ConstructionGivenOrExists ==
    /\ apiKey = IF ArgGiven THEN ctor.arg[1]
                ELSE IF EnvExists THEN ctor.env[1] ELSE ""
    /\ warned <=> (~ArgGiven /\ ~EnvExists)
    /\ [][warned' = warned /\ ctor' = ctor]_vars

\* C17, amended: every construction succeeds with a credential; it is the
\* argument if a non-empty one was given, otherwise PEXELS_API_KEY if it
\* exists and is not empty, otherwise empty; the warning was emitted exactly
\* in that last case, no request was issued, and nothing warns later.
C17_ConstructionNonEmpty ==
    /\ \A arg \in CtorArgs, env \in EnvValues : Constructor(arg, env) \in Keys
    /\ (ArgGiven /\ ctor.arg[1] # "") => apiKey = ctor.arg[1]
    /\ (~(ArgGiven /\ ctor.arg[1] # "") /\ EnvExists /\ ctor.env[1] # "")
       => apiKey = ctor.env[1]
    /\ (~(ArgGiven /\ ctor.arg[1] # "") /\ ~(EnvExists /\ ctor.env[1] # ""))
       => apiKey = ""
    /\ warned <=> (/\ ~(ArgGiven /\ ctor.arg[1] # "")
                   /\ ~(EnvExists /\ ctor.env[1] # ""))
    /\ inflight = {} /\ last = <<>>
    /\ [][warned' = warned /\ ctor' = ctor]_vars

C17_Witness ==
    /\ ctor = [arg |-> <<"">>, env |-> <<"k2">>]
    /\ apiKey = "k2"
    /\ ~warned
    /\ inflight = {} /\ last = <<>>

\* C18: a call that completes leaves exactly one outcome: a result holding a
\* payload and no error, or an error and no result. A result is returned
\* only for a response with a success status whose body parsed as JSON, and
\* its payload is the parsed body. A call that leaves the pending calls is
\* the one that completed.
C18_ExactlyOneOutcome ==
    /\ [](\A i \in DOMAIN last :
             LET outcome == last[i].outcome
                 response == last[i].response
             IN  /\ outcome.kind \in {"returned", "thrown"}
                 /\ outcome.kind = "returned"
                    <=> (outcome.error = NoError /\ outcome.data # Undefined)
                 /\ outcome.kind = "thrown"
                    <=> (outcome.error # NoError /\ outcome.data = Undefined
                         /\ outcome.rateLimit = Undefined)
                 /\ outcome.kind = "returned"
                    => /\ response # NoResponse
                       /\ response[1].status >= 200 /\ response[1].status <= 299
                       /\ JSONParse(response[1].body).ok
                       /\ outcome.data = JSONParse(response[1].body).value)
    /\ [][\A c \in inflight \ inflight' :
             Len(last') = 1 /\ last'[1].call = c]_vars

C18_Witness ==
    \E i \in DOMAIN last :
        /\ last[i].response # NoResponse
        /\ last[i].response[1].status = 204
        /\ last[i].outcome.kind = "thrown"
        /\ last[i].outcome.data = Undefined

\* C19: a response with a success status whose body is not JSON makes the
\* call fail with the error of the parser: no result, an error that is not
\* the request error (its message does not start with "Pexels API Error (")
\* nor the configuration error.
C19_ParseErrorDistinct ==
    \A i \in DOMAIN last :
        LET outcome == last[i].outcome
            response == last[i].response
        IN  (/\ response # NoResponse
             /\ ResponseOk(response[1])
             /\ ~JSONParse(response[1].body).ok)
            => /\ outcome.kind = "thrown"
               /\ outcome.data = Undefined
               /\ outcome.error = SyntaxError
               /\ outcome.error.name # "Error"
               /\ ~StartsWith(outcome.error.message, "Pexels API Error (")
               /\ ~IsRequestError(outcome, response[1].status)
               /\ ~IsConfigurationError(outcome)

C19_Witness ==
    \E i \in DOMAIN last :
        /\ last[i].response # NoResponse
        /\ last[i].response[1].status = 200
        /\ last[i].response[1].body = PlainText
        /\ last[i].outcome = Thrown(SyntaxError)

\* C20: a call whose transport fails before any response fails with the
\* error of the transport itself, not a request error nor any other error,
\* returns nothing, and the transport was invoked once for it.
C20_TransportErrorPassedThrough ==
    \A i \in DOMAIN last :
        (last[i].response = NoResponse /\ last[i].call.gets # <<>>)
        => /\ last[i].outcome.kind = "thrown"
           /\ last[i].outcome.error = TransportError
           /\ last[i].outcome.data = Undefined
           /\ ~StartsWith(last[i].outcome.error.message, "Pexels API Error (")
           /\ ~IsConfigurationError(last[i].outcome)
           /\ Len(last[i].call.gets) = 1

C20_Witness ==
    \E i \in DOMAIN last :
        /\ last[i].response = NoResponse
        /\ Len(last[i].call.gets) = 1
        /\ last[i].outcome = Thrown(TransportError)

\* two calls ask the same thing of a client holding the same credential
SameRequest(c1, c2) ==
    /\ c1.op = c2.op
    /\ c1.endpoint = c2.endpoint
    /\ c1.params = c2.params
    /\ c1.keyAtStart = c2.keyAtStart

\* C21: a step in which a call starts, fails or returns leaves the
\* credential as it was; and a call made after another one with the same
\* arguments and the same credential at its start hands the same requests to
\* the transport (or none), and, given the same response, ends in the same
\* outcome, whatever happened in between and before.
C21_OutcomeIgnoresHistory ==
    /\ [](\A c1 \in Calls, c2 \in Calls :
             SameRequest(c1, c2) => c1.gets = c2.gets)
    /\ [][/\ (last' # last \/ inflight' # inflight) => apiKey' = apiKey
          /\ \A c1 \in Calls :
                \A c2 \in (inflight' \ inflight)
                          \cup {last'[i].call : i \in DOMAIN last'} :
                   SameRequest(c1, c2) => c1.gets = c2.gets
          /\ (/\ last # <<>>
              /\ last' # <<>>
              /\ SameRequest(last[1].call, last'[1].call)
              /\ last[1].response = last'[1].response)
             => last'[1].outcome = last[1].outcome]_vars

C21_Witness ==
    /\ last # <<>>
    /\ last[1].response # NoResponse
    /\ last[1].response[1].status = 401
    /\ last[1].outcome.kind = "thrown"
    /\ \E c \in inflight : SameRequest(c, last[1].call) /\ c.gets = last[1].call.gets

\* text contains part
Contains(text, part) ==
    \E i \in 0..(Len(text) - Len(part)) : SubSeq(text, i + 1, i + Len(part)) = part

\* C22: every handler of a tool or a resource answers for every outcome of
\* its call of the client: an error the service raised, or one raised while
\* the payload is rendered, becomes a text that contains the error's message,
\* and the handler that was waiting for a call answers when the call settles.
C22_EveryOutcomeAnswered ==
    /\ [](\A i \in DOMAIN reply :
            LET r == reply[i]
            IN  /\ r.kind \in {"answered", "refused"}
                /\ r.kind = "answered" => r.texts # <<>>
                /\ r.completion # <<>> =>
                     LET outcome == r.completion[1].outcome
                         rendered == Render(r.handler, r.args, outcome)
                     IN  /\ r.kind = "answered"
                         /\ outcome.kind = "thrown" =>
                              \E t \in DOMAIN r.texts :
                                 Contains(r.texts[t], outcome.error.message)
                         /\ (outcome.kind = "returned" /\ rendered.threw) =>
                              /\ rendered.error.message # ""
                              /\ \E t \in DOMAIN r.texts :
                                    Contains(r.texts[t], rendered.error.message))
    /\ [][\A h \in handlers \ handlers' :
             /\ reply' # <<>>
             /\ reply'[1].handler = h.handler
             /\ reply'[1].args = h.args
             /\ reply'[1].completion # <<>>
             /\ reply'[1].completion[1].call = h.call]_vars

C22_Witness ==
    /\ reply # <<>>
    /\ reply[1].handler = "downloadPhoto"
    /\ reply[1].completion # <<>>
    /\ reply[1].completion[1].outcome.kind = "returned"
    /\ Render("downloadPhoto", reply[1].args, reply[1].completion[1].outcome).threw
    /\ reply[1].texts
         = <<"Error preparing photo data: Cannot read properties of undefined (reading 'tiny')">>

\* the names of the tools main.ts registers
Tools ==
    {"searchPhotos", "downloadPhoto", "downloadVideo", "getCuratedPhotos",
     "getPhoto", "searchVideos", "getPopularVideos", "getVideo",
     "getFeaturedCollections", "getCollectionMedia"}

\* the tool whose answer r is ran without an error: the client returned a
\* payload and the handler rendered it
Successful(r) ==
    /\ r.handler \in Tools
    /\ r.kind = "answered"
    /\ r.completion # <<>>
    /\ r.completion[1].outcome.kind = "returned"
    /\ ~Render(r.handler, r.args, r.completion[1].outcome).threw

\* C23: every successful answer of a tool has a text with the rate limit status
\* (the remaining requests and the time of the reset).
C23_RateLimitInEverySuccess ==
    \A i \in DOMAIN reply :
       Successful(reply[i]) =>
          \E t \in DOMAIN reply[i].texts :
             StartsWith(reply[i].texts[t], "\nRate Limit: ")

\* C24: the server has a setApiKey tool: an invocation of it is answered and
\* leaves the client holding the key it was given, so that the tools invoked
\* afterwards send their requests with that key.
C24_SetApiKeyTool ==
    \A i \in DOMAIN reply :
       reply[i].handler = "setApiKey" =>
          /\ reply[i].kind = "answered"
          /\ apiKey = reply[i].args.apiKey.v

\* page is at least 1 and perPage is between 1 and 80, where given
InBounds(args) ==
    /\ ("page" \in DOMAIN args /\ args.page.t # "undefined")
          => Scaled(args.page) >= 10
    /\ ("perPage" \in DOMAIN args /\ args.perPage.t # "undefined")
          => (Scaled(args.perPage) >= 10 /\ Scaled(args.perPage) <= 800)

\* C25: a tool invoked with a page below 1 or a perPage outside 1..80 is
\* refused before it calls the client, so that no request with such a value
\* is issued.
C25_PagingBounds ==
    /\ \A h \in handlers : h.handler \in Tools => InBounds(h.args)
    /\ \A i \in DOMAIN reply :
          (reply[i].handler \in Tools /\ ~InBounds(reply[i].args))
             => (reply[i].kind = "refused" /\ reply[i].completion = <<>>)

\* the id a handler passes to getPhoto or getVideo
IdOf(handler, args) ==
    IF handler \in {"photo", "video"} THEN ParseInt(args.id.v) ELSE args.id

\* C26: getPhoto and getVideo are called with an id above zero only, from
\* the four tools and the two resources that reach them: no request for a
\* photo or video with another id is issued.
C26_PositiveIds ==
    /\ \A h \in handlers :
          h.call.op \in {"getPhoto", "getVideo"} =>
             /\ IdOf(h.handler, h.args).t = "number"
             /\ IdOf(h.handler, h.args).v > 0
    /\ \A i \in DOMAIN reply :
          (reply[i].completion # <<>>
           /\ reply[i].completion[1].call.op \in {"getPhoto", "getVideo"}) =>
             /\ IdOf(reply[i].handler, reply[i].args).t = "number"
             /\ IdOf(reply[i].handler, reply[i].args).v > 0

\* the URL of the lookup a download tool makes
LookupUrl(handler, args) ==
    IF handler = "downloadPhoto"
    THEN "https://api.pexels.com/v1/photos/" \o ToString(args.id.v)
    ELSE "https://api.pexels.com/videos/videos/" \o ToString(args.id.v)

\* the answer has a link, then a suggested filename with the attribution
RelaysLink(texts) ==
    /\ Len(texts) >= 2
    /\ StartsWith(texts[1], "Download Link (")
    /\ StartsWith(texts[2], "Suggested Filename: pexels_")
    /\ Contains(texts[2], "\nAttribution: ")
    /\ Contains(texts[2], " on Pexels. License: https://www.pexels.com/license/")

\* C27 as stated: every invocation of downloadPhoto or downloadVideo issues
\* exactly one GET, the lookup of the photo or video, and answers a download
\* link, a suggested filename and the attribution.
C27_OneGetAndLink ==
    \A i \in DOMAIN reply :
       reply[i].kind = "answered" =>
          /\ reply[i].completion # <<>>
          /\ reply[i].completion[1].call.gets
               = <<Get(LookupUrl(reply[i].handler, reply[i].args), apiKey)>>
          /\ RelaysLink(reply[i].texts)

\* the lookup returned a photo with an 'original' URL, or a video with a file
HasFile(handler, outcome) ==
    /\ outcome.kind = "returned"
    /\ outcome.data.t = "object"
    /\ IF handler = "downloadPhoto"
       THEN /\ "src" \in DOMAIN outcome.data.fields
            /\ outcome.data.fields.src.t = "object"
            /\ "original" \in DOMAIN outcome.data.fields.src.fields
       ELSE /\ "video_files" \in DOMAIN outcome.data.fields
            /\ outcome.data.fields.video_files.t = "array"
            /\ outcome.data.fields.video_files.items # <<>>

\* C27: downloadPhoto and downloadVideo only relay a URL: an invocation issues
\* at most one GET, the lookup of the photo or video (exactly one when the
\* arguments are valid and the server holds a key, none otherwise); when the
\* lookup returns a photo or video that has a file, the answer is a download
\* link, a suggested filename and the attribution; no other URL is fetched.
C27_RelaysUrl ==
    /\ [](\A h \in handlers :
            h.call.gets = IF NoApiKey(apiKey) THEN <<>>
                          ELSE <<Get(LookupUrl(h.handler, h.args), apiKey)>>)
    /\ [](\A c \in inflight : \E h \in handlers : h.call = c)
    /\ [](\A i \in DOMAIN reply :
            LET r == reply[i]
            IN  /\ r.kind = "refused" => r.completion = <<>>
                /\ r.kind = "answered" =>
                     /\ r.completion # <<>>
                     /\ r.completion[1].call.gets
                          = IF NoApiKey(apiKey) THEN <<>>
                            ELSE <<Get(LookupUrl(r.handler, r.args), apiKey)>>
                     /\ HasFile(r.handler, r.completion[1].outcome)
                          => RelaysLink(r.texts))
    /\ [][/\ Cardinality(inflight' \ inflight) <= 1
          /\ handlers' \ handlers # {}
                => (inflight' \ inflight # {} \/ NoApiKey(apiKey))
          /\ handlers \ handlers' # {} => inflight' \subseteq inflight]_vars

C27_Witness ==
    /\ reply # <<>>
    /\ reply[1].handler = "downloadVideo"
    /\ reply[1].completion # <<>>
    /\ reply[1].completion[1].call.gets
         = <<Get("https://api.pexels.com/videos/videos/7", "k2")>>
    /\ reply[1].texts[1] = "Download Link (hd): https://videos.pexels.com/7/hd"
    /\ RelaysLink(reply[1].texts)

\* the least index of a non-empty set of indexes
First(indexes) == CHOOSE k \in indexes : \A j \in indexes : k <= j

\* C28: downloadVideo links to the first entry of video_files whose quality
\* is the requested one ('hd' when none was given); when no entry matches it
\* links to the first entry and names that entry's quality in the label and
\* the filename; it answers that no video file was found only when
\* video_files is empty.
C28_QualityFallback ==
    /\ [](\A i \in DOMAIN reply :
            LET r == reply[i]
            IN  (/\ r.handler = "downloadVideo"
                 /\ r.kind = "answered"
                 /\ HasFile("downloadVideo", r.completion[1].outcome)
                    \/ (/\ r.completion[1].outcome.kind = "returned"
                        /\ r.completion[1].outcome.data = JSONParse(VideoNoFilesBody).value))
                => LET data == r.completion[1].outcome.data.fields
                       files == data.video_files.items
                       matches == {k \in DOMAIN files :
                                     files[k].fields.quality = r.args.quality}
                       chosen == IF matches # {} THEN files[First(matches)].fields
                                 ELSE files[1].fields
                   IN  IF files = <<>>
                       THEN r.texts = <<"No video file found for ID "
                                        \o ToString(r.args.id.v) \o ".">>
                       ELSE /\ r.texts[1] = "Download Link (" \o chosen.quality.v
                                            \o "): " \o chosen.link.v
                            /\ StartsWith(r.texts[2],
                                          "Suggested Filename: pexels_video_"
                                          \o ToString(data.id.v) \o "_"
                                          \o chosen.quality.v \o "."))
    /\ [][\A args \in DownloadVideoArgs :
             (ToolDownloadVideo(args) /\ handlers' # handlers) =>
                \A h \in handlers' \ handlers :
                   h.args.quality = IF args.quality = Undefined THEN Str("hd")
                                    ELSE args.quality]_vars

C28_Witness ==
    /\ reply # <<>>
    /\ reply[1].handler = "downloadVideo"
    /\ reply[1].args.quality = Str("hd")
    /\ reply[1].completion # <<>>
    /\ reply[1].completion[1].outcome.kind = "returned"
    /\ reply[1].completion[1].outcome.data = JSONParse(VideoSdOnlyBody).value
    /\ reply[1].texts[1] = "Download Link (sd): https://videos.pexels.com/7/sd.mov"
    /\ StartsWith(reply[1].texts[2], "Suggested Filename: pexels_video_7_sd.mov\n")

\* C29: downloadPhoto links to the URL the photo has under the requested
\* size ('original' when none was given); when the photo has none it links to
\* the 'original' URL and says 'original' in the label and the filename; it
\* answers that no download URL was found only when 'original' is missing too.
C29_SizeFallback ==
    /\ [](\A i \in DOMAIN reply :
            LET r == reply[i]
            IN  (/\ r.handler = "downloadPhoto"
                 /\ r.kind = "answered"
                 /\ r.completion[1].outcome.kind = "returned"
                 /\ r.completion[1].outcome.data.t = "object"
                 /\ "src" \in DOMAIN r.completion[1].outcome.data.fields)
                => LET data == r.completion[1].outcome.data.fields
                       sizes == data.src.fields
                       requested == r.args.size.v
                       Link(size) ==
                          /\ r.texts[1] = "Download Link (" \o size \o "): "
                                          \o sizes[size].v
                          /\ StartsWith(r.texts[2],
                                        "Suggested Filename: pexels_"
                                        \o ToString(data.id.v) \o "_" \o size \o ".")
                   IN  IF requested \in DOMAIN sizes THEN Link(requested)
                       ELSE IF "original" \in DOMAIN sizes THEN Link("original")
                       ELSE r.texts = <<"Could not find any download URL for photo ID "
                                        \o ToString(r.args.id.v) \o ".">>)
    /\ [][\A args \in DownloadPhotoArgs :
             (ToolDownloadPhoto(args) /\ handlers' # handlers) =>
                \A h \in handlers' \ handlers :
                   h.args.size = IF args.size = Undefined THEN Str("original")
                                 ELSE args.size]_vars

C29_Witness ==
    /\ reply # <<>>
    /\ reply[1].handler = "downloadPhoto"
    /\ reply[1].args.size = Str("tiny")
    /\ reply[1].completion # <<>>
    /\ reply[1].completion[1].outcome.kind = "returned"
    /\ reply[1].completion[1].outcome.data = JSONParse(PhotoBody).value
    /\ reply[1].texts[1]
         = "Download Link (original): https://images.pexels.com/photos/42/a.png"
    /\ StartsWith(reply[1].texts[2], "Suggested Filename: pexels_42_original.png\n")

\* the integers an id starts with, written in decimal; the longest is the
\* integer the id parses as, and an id that does not start with a digit, or
\* with a minus sign and a digit, does not parse
Prefixes(id) == {n \in (0 - 99)..99 : StartsWith(id, ToString(n))}
Parsable(id) ==
    \E d \in 0..9 : StartsWith(id, ToString(d)) \/ StartsWith(id, "-" \o ToString(d))
IntegerOf(id) ==
    CHOOSE n \in Prefixes(id) :
       \A m \in Prefixes(id) : Len(ToString(m)) <= Len(ToString(n))

\* C30: a photo or video resource whose id does not parse as an integer is
\* answered 'Invalid photo ID' / 'Invalid video ID' without a call of the
\* client; one whose id parses calls getPhoto / getVideo once, with the
\* integer parsed.
C30_ResourceIds ==
    /\ [](\A h \in handlers :
            h.handler \in {"photo", "video"} =>
               /\ Parsable(h.args.id.v)
               /\ h.call.op = (IF h.handler = "photo" THEN "getPhoto" ELSE "getVideo")
               /\ h.call.endpoint
                    = (IF h.handler = "photo" THEN "/photos/" ELSE "/videos/videos/")
                      \o ToString(IntegerOf(h.args.id.v))
               /\ Len(h.call.gets) = IF NoApiKey(apiKey) THEN 0 ELSE 1)
    /\ [](\A i \in DOMAIN reply :
            LET r == reply[i]
            IN  r.handler \in {"photo", "video"} =>
                   IF Parsable(r.args.id.v)
                   THEN /\ r.completion # <<>>
                        /\ r.completion[1].call.op
                             = (IF r.handler = "photo" THEN "getPhoto" ELSE "getVideo")
                        /\ r.completion[1].call.endpoint
                             = (IF r.handler = "photo" THEN "/photos/"
                                ELSE "/videos/videos/")
                               \o ToString(IntegerOf(r.args.id.v))
                   ELSE /\ r.completion = <<>>
                        /\ r.texts = <<"Invalid " \o r.handler \o " ID: " \o r.args.id.v>>)
    /\ [][/\ (/\ reply' # reply
              /\ reply'[1].handler \in {"photo", "video"}
              /\ ~Parsable(reply'[1].args.id.v))
                => (inflight' = inflight /\ last' = last /\ handlers' = handlers)
          /\ \A h \in handlers' \ handlers :
                h.handler \in {"photo", "video"} =>
                   IF NoApiKey(apiKey) THEN inflight' = inflight
                   ELSE inflight' \ inflight = {h.call} /\ last' = last]_vars

C30_Witness ==
    /\ reply # <<>>
    /\ reply[1].texts = <<"Invalid photo ID: abc">>
    /\ \E h \in handlers :
          /\ h.handler = "video"
          /\ h.args.id = Str("12abc")
          /\ h.call.gets # <<>>
          /\ h.call.gets[1].url = "https://api.pexels.com/videos/videos/12"

====
